---- MODULE Spec2Model ----
(***************************************************************************)
(* Sternhalma server: the game engine (board, move generation, game state   *)
(* machine) and the session coordinator with its handshake and connection  *)
(* tasks, modelled from src/src/sternhalma, src/src/sterhalma/board and    *)
(* src/src/server.                                                         *)
(***************************************************************************)
EXTENDS Integers, Sequences, FiniteSets, TLC

(***************************************************************************)
(* Bounds of the model                                                     *)
(***************************************************************************)
\* number of transports the listener accepts
MaxConns == 3
\* the max_turns argument of Server::try_run
MaxTurns == 2
\* largest in-range movement_index a remote client sends
MaxChoice == 1
\* number of Choice messages the remote peers send in a run
MaxSends == 2
\* number of transports the remote peers close in a run
MaxCloses == 1
\* remote actions after the handshake, Choice messages and closes together
MaxActs == 2

(***************************************************************************)
(* Board (sterhalma/board/mod.rs)                                          *)
(***************************************************************************)
BOARD_LENGTH == 17

Player1 == "Player1"
Player2 == "Player2"
\* Player::variants(), in order
PlayerVariants == <<Player1, Player2>>
Players == {Player1, Player2}

opponent(p) == IF p = Player1 THEN Player2 ELSE Player1

\* `player as usize`, shifted to the 1-based indices of a TLA+ tuple
PlayerIndex(p) == IF p = Player1 THEN 1 ELSE 2

\* Position<T>: None (outside the board), Some(None), Some(Some(player))
Outside == "Outside"
Empty == "Empty"

\* lut::VALID_POSITIONS: the 121 cells of the six-pointed star
VALID_POSITIONS ==
    {<<i, j>> \in (0..(BOARD_LENGTH - 1)) \X (0..(BOARD_LENGTH - 1)) :
        \/ (i <= 12 /\ j <= 12 /\ i + j >= 12)
        \/ (i >= 4 /\ j >= 4 /\ i + j <= 20)}

\* lut::PLAYER1_STARTING_POSITIONS: the 15 cells of the bottom corner
PLAYER1_STARTING_POSITIONS ==
    {<<i, j>> \in VALID_POSITIONS : i >= 12 /\ j >= 4 /\ i + j <= 20}

\* lut::PLAYER2_STARTING_POSITIONS: the 15 cells of the top corner
PLAYER2_STARTING_POSITIONS ==
    {<<i, j>> \in VALID_POSITIONS : i <= 4 /\ j <= 12 /\ i + j >= 12}

\* Index<HexIdx> for Board: the flat position of [i, j]
FlatIndex(idx) == idx[1] * BOARD_LENGTH + idx[2]

BoardCells == 0..(BOARD_LENGTH * BOARD_LENGTH - 1)

\* [i / BOARD_LENGTH, i % BOARD_LENGTH]
HexIdxOf(k) == <<k \div BOARD_LENGTH, k % BOARD_LENGTH>>

\* Board::empty
EmptyBoard ==
    [k \in BoardCells |-> IF HexIdxOf(k) \in VALID_POSITIONS THEN Empty ELSE Outside]

\* Board::<Player>::new
NewBoard ==
    [k \in BoardCells |->
        IF HexIdxOf(k) \in PLAYER1_STARTING_POSITIONS THEN Player1
        ELSE IF HexIdxOf(k) \in PLAYER2_STARTING_POSITIONS THEN Player2
        ELSE EmptyBoard[k]]

\* HexDirection::variants(), in order
HexDirections == <<"NW", "NE", "W", "E", "SW", "SE">>

NoIdx == <<>>

\* the index computed by next_nw .. next_w, NoIdx where checked_sub or the
\* BOARD_LENGTH test fails
NextIdx(idx, direction) ==
    LET i == idx[1]
        j == idx[2]
    IN CASE direction = "NW" -> IF i >= 1 THEN <<i - 1, j>> ELSE NoIdx
         [] direction = "NE" -> IF i >= 1 /\ j + 1 < BOARD_LENGTH THEN <<i - 1, j + 1>> ELSE NoIdx
         [] direction = "E"  -> IF j + 1 < BOARD_LENGTH THEN <<i, j + 1>> ELSE NoIdx
         [] direction = "SE" -> IF i + 1 < BOARD_LENGTH THEN <<i + 1, j>> ELSE NoIdx
         [] direction = "SW" -> IF i + 1 < BOARD_LENGTH /\ j >= 1 THEN <<i + 1, j - 1>> ELSE NoIdx
         [] direction = "W"  -> IF j >= 1 THEN <<i, j - 1>> ELSE NoIdx

\* Board::nearest_neighbor: NoIdx, or the neighbour's index when it is a
\* valid position
nearest_neighbor(board, idx, direction) ==
    LET n == NextIdx(idx, direction)
    IN IF n = NoIdx THEN NoIdx
       ELSE IF board[FlatIndex(n)] = Outside THEN NoIdx
       ELSE n

Contains(seq, x) == \E k \in 1..Len(seq) : seq[k] = x

Last(seq) == seq[Len(seq)]

RECURSIVE Flatten(_)
Flatten(seqs) == IF seqs = <<>> THEN <<>> ELSE Head(seqs) \o Flatten(Tail(seqs))

\* the cells of the flat array in storage order
ScanOrder == [k \in 1..(BOARD_LENGTH * BOARD_LENGTH) |-> HexIdxOf(k - 1)]

\* Board::iter_player_indices: row-major scan of the cells held by player
iter_player_indices(board, player) ==
    SelectSeq(ScanOrder, LAMBDA idx : board[FlatIndex(idx)] = player)

(***************************************************************************)
(* Movements (sterhalma/board/movement.rs)                                 *)
(***************************************************************************)
\* MovementFull::Move { from, to }
Move(from, to) == [kind |-> "Move", path |-> <<from, to>>]
\* MovementFull::Hops { path }
Hops(path) == [kind |-> "Hops", path |-> path]

\* the landing cell of a hop from idx in direction, NoIdx when there is none
HopTarget(board, idx, direction) ==
    LET nn == nearest_neighbor(board, idx, direction)
    IN IF nn = NoIdx THEN NoIdx
       ELSE IF board[FlatIndex(nn)] = Empty THEN NoIdx
       ELSE LET nnn == nearest_neighbor(board, nn, direction)
            IN IF nnn = NoIdx THEN NoIdx
               ELSE IF board[FlatIndex(nnn)] # Empty THEN NoIdx
               ELSE nnn

\* faulty variant of Board::available_hops_from: only the first three
\* directions are tried
available_hops_from_three_directions(board, idx) ==
    Flatten([d \in 1..3 |->
        LET t == HopTarget(board, idx, HexDirections[d])
        IN IF t = NoIdx THEN <<>> ELSE <<t>>])

\* Board::available_hops_from
available_hops_from(board, idx) ==
    Flatten([d \in 1..Len(HexDirections) |->
        LET t == HopTarget(board, idx, HexDirections[d])
        IN IF t = NoIdx THEN <<>> ELSE <<t>>])

\* Board::collect_hop_paths_from
RECURSIVE collect_hop_paths_from(_, _), CollectNextHops(_, _, _, _)
CollectNextHops(board, path, hops, k) ==
    IF k > Len(hops) THEN <<>>
    ELSE LET next_hop_idx == hops[k]
             next_path == Append(path, next_hop_idx)
         IN (IF ~Contains(path, next_hop_idx)
             THEN <<Hops(next_path)>> \o collect_hop_paths_from(board, next_path)
             ELSE <<>>)
            \o CollectNextHops(board, path, hops, k + 1)

collect_hop_paths_from(board, path) ==
    CollectNextHops(board, path, available_hops_from(board, Last(path)), 1)

\* faulty variant of Board::available_movements_from: a Move to every
\* neighbour on the board, empty or not
available_movements_from_any_neighbour(board, idx) ==
    Flatten([d \in 1..Len(HexDirections) |->
        LET nn == nearest_neighbor(board, idx, HexDirections[d])
        IN IF nn = NoIdx THEN <<>> ELSE <<Move(idx, nn)>>])

\* faulty variant of Board::available_movements_from: hop paths are also
\* collected from a free neighbour, as if the step to it were a first hop
available_movements_from_step_then_hop(board, idx) ==
    Flatten([d \in 1..Len(HexDirections) |->
        LET direction == HexDirections[d]
            nn == nearest_neighbor(board, idx, direction)
        IN IF nn = NoIdx THEN <<>>
           ELSE IF board[FlatIndex(nn)] = Empty
                THEN <<Move(idx, nn)>> \o collect_hop_paths_from(board, <<idx, nn>>)
           ELSE LET nnn == nearest_neighbor(board, nn, direction)
                IN IF nnn = NoIdx THEN <<>>
                   ELSE IF board[FlatIndex(nnn)] # Empty THEN <<>>
                   ELSE LET initial_hop == <<idx, nnn>>
                        IN <<Hops(initial_hop)>> \o collect_hop_paths_from(board, initial_hop)])

\* Board::available_movements_from
available_movements_from(board, idx) ==
    Flatten([d \in 1..Len(HexDirections) |->
        LET direction == HexDirections[d]
            nn == nearest_neighbor(board, idx, direction)
        IN IF nn = NoIdx THEN <<>>
           ELSE IF board[FlatIndex(nn)] = Empty THEN <<Move(idx, nn)>>
           ELSE LET nnn == nearest_neighbor(board, nn, direction)
                IN IF nnn = NoIdx THEN <<>>
                   ELSE IF board[FlatIndex(nnn)] # Empty THEN <<>>
                   ELSE LET initial_hop == <<idx, nnn>>
                        IN <<Hops(initial_hop)>> \o collect_hop_paths_from(board, initial_hop)])

\* Board::iter_player_movements
iter_player_movements(board, player) ==
    LET indices == iter_player_indices(board, player)
    IN Flatten([k \in 1..Len(indices) |-> available_movements_from(board, indices[k])])

\* MovementFull::get_indices: the pair [from, to]
get_indices(movement) == <<movement.path[1], Last(movement.path)>>

\* Itertools::unique over the endpoint pairs: the first occurrence is kept
RECURSIVE Unique(_)
Unique(seq) ==
    IF Len(seq) <= 1 THEN seq
    ELSE LET half == Len(seq) \div 2
             front == Unique(SubSeq(seq, 1, half))
             back == Unique(SubSeq(seq, half + 1, Len(seq)))
         IN front \o SelectSeq(back, LAMBDA x : ~Contains(front, x))

\* Board::validate_movement: "Ok" or the MovementError
validate_movement(board, movement) ==
    LET path == movement.path
        \* the first index after the start that is outside the board or occupied
        bad == {k \in 2..Len(path) : board[FlatIndex(path[k])] # Empty}
        first == CHOOSE k \in bad : \A l \in bad : k <= l
    IN IF movement.kind = "Move"
       THEN IF board[FlatIndex(path[1])] = Outside THEN "InvalidIndex"
            ELSE IF board[FlatIndex(path[1])] = Empty THEN "EmptyInit"
            ELSE IF board[FlatIndex(path[2])] = Outside THEN "InvalidIndex"
            ELSE IF board[FlatIndex(path[2])] # Empty THEN "Occupied"
            ELSE "Ok"
       ELSE IF path = <<>> THEN "ShortHopping"
            ELSE IF board[FlatIndex(path[1])] = Outside THEN "InvalidIndex"
            ELSE IF board[FlatIndex(path[1])] = Empty THEN "EmptyInit"
            ELSE IF bad = {} THEN "Ok"
            ELSE IF board[FlatIndex(path[first])] = Outside THEN "InvalidIndex"
            ELSE "Occupied"

\* faulty variant of Board::unsafe_apply_movement: the piece is not taken
\* from its origin
board_apply_movement_copied(board, indices) ==
    [board EXCEPT ![FlatIndex(indices[2])] = board[FlatIndex(indices[1])]]

\* Board::unsafe_apply_movement / apply_movement_unchecked: the piece at
\* from is taken and put at to
board_apply_movement_unchecked(board, indices) ==
    [board EXCEPT ![FlatIndex(indices[1])] = Empty,
                  ![FlatIndex(indices[2])] = board[FlatIndex(indices[1])]]

\* goal_indices
goal_indices(player) ==
    IF player = Player1 THEN PLAYER2_STARTING_POSITIONS ELSE PLAYER1_STARTING_POSITIONS

NoPlayer == "NoPlayer"

\* Board::check_winner: the first of Player::variants() that holds all its
\* goal positions
check_winner(board) ==
    IF \A idx \in goal_indices(Player1) : board[FlatIndex(idx)] = Player1 THEN Player1
    ELSE IF \A idx \in goal_indices(Player2) : board[FlatIndex(idx)] = Player2 THEN Player2
    ELSE NoPlayer

\* Board::score
score(board, player) ==
    Cardinality({idx \in goal_indices(player) : board[FlatIndex(idx)] = player})


(***************************************************************************)
(* Game state machine (sternhalma/mod.rs)                                  *)
(***************************************************************************)
\* GameStatus::Playing { player, turns, scores }
Playing(player, turns, scores) ==
    [kind |-> "Playing", player |-> player, turns |-> turns, scores |-> scores]
\* GameStatus::Finished { winner, total_turns, scores }
Finished(winner, total_turns, scores) ==
    [kind |-> "Finished", player |-> winner, turns |-> total_turns, scores |-> scores]

\* the coordinator before game_loop has created the Game
NoGame ==
    [board |-> EmptyBoard,
     status |-> [kind |-> "NoGame", player |-> NoPlayer, turns |-> 0, scores |-> <<0, 0>>],
     history |-> <<>>]

\* faulty variant of Game::new: the second player opens the game
NewGameSecondPlayerOpens ==
    [board |-> NewBoard, status |-> Playing(Player2, 0, <<0, 0>>), history |-> <<>>]

\* Game::new
NewGame ==
    [board |-> NewBoard, status |-> Playing(Player1, 0, <<0, 0>>), history |-> <<>>]

\* Game::next_status, evaluated on the board the movement was applied to
next_status(g, movement) ==
    IF g.status.kind = "Finished" THEN g.status
    ELSE LET player == g.status.player
             goal == goal_indices(player)
             s0 == g.status.scores[PlayerIndex(player)]
             s1 == IF movement[1] \in goal THEN s0 - 1 ELSE s0
             s2 == IF movement[2] \in goal THEN s1 + 1 ELSE s1
             scores == [g.status.scores EXCEPT ![PlayerIndex(player)] = s2]
             winner == check_winner(g.board)
         IN IF winner # NoPlayer
            THEN Finished(winner, g.status.turns + 1, scores)
            ELSE Playing(opponent(player), g.status.turns + 1, scores)

\* Game::iter_available_moves (Playing only; Finished is todo!())
iter_available_moves(g) == iter_player_movements(g.board, g.status.player)

\* Game::apply_movement_unchecked
apply_movement_unchecked(g, movement) ==
    LET moved == [g EXCEPT !.board = board_apply_movement_unchecked(g.board, movement),
                           !.history = Append(g.history, movement)]
    IN [moved EXCEPT !.status = next_status(moved, movement)]

\* faulty variant of Game::apply_movement: the owner of the piece is not
\* compared with the current player
apply_movement_any_player(g, movement) ==
    IF g.status.kind = "Finished" THEN [game |-> g, ret |-> "GameFinished"]
    ELSE LET valid == validate_movement(g.board, movement)
         IN IF valid # "Ok" THEN [game |-> g, ret |-> valid]
            ELSE [game |-> apply_movement_unchecked(g, get_indices(movement)),
                  ret |-> "Ok"]

\* Game::apply_movement: the Game afterwards and "Ok" or the GameError
apply_movement(g, movement) ==
    IF g.status.kind = "Finished" THEN [game |-> g, ret |-> "GameFinished"]
    ELSE LET valid == validate_movement(g.board, movement)
         IN IF valid # "Ok" THEN [game |-> g, ret |-> valid]
            ELSE IF g.board[FlatIndex(movement.path[1])] # g.status.player
            THEN [game |-> g, ret |-> "OutOfTurn"]
            ELSE [game |-> apply_movement_unchecked(g, get_indices(movement)),
                  ret |-> "Ok"]

\* faulty variant of handle_turn's list: unique() is left out
available_movements_all(g) ==
    LET full == iter_available_moves(g)
    IN [k \in 1..Len(full) |-> get_indices(full[k])]

\* handle_turn: iter_available_moves().map(into).unique().collect()
available_movements(g) ==
    LET full == iter_available_moves(g)
    IN Unique([k \in 1..Len(full) |-> get_indices(full[k])])


(***************************************************************************)
(* Perspective of a client (server/client.rs)                              *)
(***************************************************************************)
\* faulty variant of Client::relative_player: the absolute player is kept
relative_player_absolute(self_player, player) == player

\* Client::relative_player
relative_player(self_player, player) ==
    IF self_player = Player1 THEN player ELSE opponent(player)

\* Client::relative_idx
relative_idx(self_player, idx) ==
    IF self_player = Player1 THEN idx
    ELSE <<BOARD_LENGTH - 1 - idx[1], BOARD_LENGTH - 1 - idx[2]>>

\* Client::relative_movement
relative_movement(self_player, movement) ==
    <<relative_idx(self_player, movement[1]), relative_idx(self_player, movement[2])>>

\* faulty variant of the score transform: the entries are not swapped
relative_scores_unswapped(self_player, scores) == scores

\* the scores as handle_server_broadcast sends them
relative_scores(self_player, scores) ==
    IF self_player = Player1 THEN scores ELSE <<scores[2], scores[1]>>

\* ServerMessage::Turn
Turn(list) == [type |-> "turn", movements |-> list]
\* faulty variant of the Movement broadcast: the indices are swapped
MovementReversed(player, movement, scores) ==
    [type |-> "movement", player |-> player, movement |-> <<movement[2], movement[1]>>,
     scores |-> scores]

\* ServerBroadcast / RemoteOutMessage variants
Movement(player, movement, scores) ==
    [type |-> "movement", player |-> player, movement |-> movement, scores |-> scores]
GameFinished(result) == [type |-> "game_finished", result |-> result]
Disconnect == [type |-> "disconnect"]
Welcome(session_id) == [type |-> "welcome", session_id |-> session_id]
Reject(reason) == [type |-> "reject", reason |-> reason]

\* GameResult::Finished / GameResult::MaxTurns
ResultFinished(winner, total_turns, scores) ==
    [type |-> "finished", winner |-> winner, total_turns |-> total_turns, scores |-> scores]
ResultMaxTurns(total_turns, scores) ==
    [type |-> "max_turns", winner |-> NoPlayer, total_turns |-> total_turns, scores |-> scores]

\* Client::handle_server_message: the RemoteOutMessage for a direct message
handle_server_message(self_player, message) ==
    Turn([k \in 1..Len(message.movements) |->
            relative_movement(self_player, message.movements[k])])

\* Client::handle_server_broadcast: the RemoteOutMessage for a broadcast
handle_server_broadcast(self_player, message) ==
    CASE message.type = "disconnect" -> Disconnect
      [] message.type = "movement" ->
            Movement(relative_player(self_player, message.player),
                     relative_movement(self_player, message.movement),
                     relative_scores(self_player, message.scores))
      [] message.type = "game_finished" ->
            IF message.result.type = "finished"
            THEN GameFinished(ResultFinished(
                    relative_player(self_player, message.result.winner),
                    message.result.total_turns,
                    relative_scores(self_player, message.result.scores)))
            ELSE GameFinished(ResultMaxTurns(
                    message.result.total_turns,
                    relative_scores(self_player, message.result.scores)))

(***************************************************************************)
(* State                                                                   *)
(***************************************************************************)
Conns == 1..MaxConns
NoConn == 0
\* a session id no handshake has minted
NilSession == 0
\* Uuid::new_v4() of the handshake of connection c
NewSessionId(c) == c

NoReply == "NoReply"
\* Option::None sent on a oneshot
NoneReply == "None"

VARIABLES
    \* Server (server/mod.rs)
    srv_pc,          \* where Server::try_run stands
    run_result,      \* the Result of Server::run: "none", "ok", "err"
    clients_tx,      \* Server.clients_tx: Player -> connection holding the receiver
    sessions,        \* Server.sessions: session id -> Player
    disconnected,    \* Server.disconnected
    main_rx,         \* queue of MainThreadMessage
    clients_rx,      \* queue of ClientMessage
    broadcast_log,   \* everything sent on broadcast_tx, in order
    game,            \* the Game of game_loop
    current_player,  \* handle_turn's current_player
    movements,       \* handle_turn's movements
    \* handshake and Client tasks (server/handshake.rs, server/client.rs)
    hs_pc,           \* where handle_handshake stands, per connection
    hs_kind,         \* "hello" or "reconnect", per connection
    resp,            \* the oneshot reply, per connection
    client_pc,       \* "none", "running", "ended": the spawned Client task
    conn_player,     \* Client.player
    conn_sid,        \* the session id of the handshake
    remote_open,     \* the remote peer has not closed its transport
    server_rx,       \* Client.server_rx: queue of direct messages
    bcast_pos,       \* Client.broadcast_rx: how much of broadcast_log was received
    remote_out,      \* the RemoteOutMessages written to the transport, in order
    \* bookkeeping for the properties
    turn_sent,       \* connections a Turn was dispatched to in the open turn
    last_request,    \* the ClientMessage or MainThreadMessage handled last
    n_sends,         \* Choice messages sent so far
    n_closes,        \* transports closed so far
    closed_before,   \* per connection: the transports already closed at its Reconnect
    welcomed_before  \* per connection: the connections a Hello of which was already
                     \* answered with Welcome at its Hello

srv_vars == <<srv_pc, run_result, clients_tx, sessions, disconnected, main_rx,
              clients_rx, broadcast_log, game, current_player, movements>>
conn_vars == <<hs_pc, hs_kind, resp, client_pc, conn_player, conn_sid, remote_open,
               server_rx, bcast_pos, remote_out>>
aux_vars == <<turn_sent, last_request>>
env_vars == <<n_sends, n_closes, closed_before, welcomed_before>>
vars == <<srv_vars, conn_vars, aux_vars, env_vars>>

NoRequest == [type |-> "none", player |-> NoPlayer, conn |-> NoConn, outcome |-> "none",
              prev |-> "none"]

Init ==
    /\ srv_pc = "wait_players"
    /\ run_result = "none"
    /\ clients_tx = [p \in Players |-> NoConn]
    /\ sessions = [sid \in Conns |-> NoPlayer]
    /\ disconnected = {}
    /\ main_rx = <<>>
    /\ clients_rx = <<>>
    /\ broadcast_log = <<>>
    /\ game = NoGame
    /\ current_player = NoPlayer
    /\ movements = <<>>
    /\ hs_pc = [c \in Conns |-> "start"]
    /\ hs_kind = [c \in Conns |-> "none"]
    /\ resp = [c \in Conns |-> NoReply]
    /\ client_pc = [c \in Conns |-> "none"]
    /\ conn_player = [c \in Conns |-> NoPlayer]
    /\ conn_sid = [c \in Conns |-> NilSession]
    /\ remote_open = [c \in Conns |-> TRUE]
    /\ server_rx = [c \in Conns |-> <<>>]
    /\ bcast_pos = [c \in Conns |-> 0]
    /\ remote_out = [c \in Conns |-> <<>>]
    /\ turn_sent = {}
    /\ last_request = NoRequest
    /\ n_sends = 0
    /\ n_closes = 0
    /\ closed_before = [c \in Conns |-> {}]
    /\ welcomed_before = [c \in Conns |-> {}]


(***************************************************************************)
(* Session coordinator (server/mod.rs)                                     *)
(***************************************************************************)
\* MainThreadMessage variants; conn names the oneshot or the direct channel
\* the message carries
ClientConnected(player, session_id, c) ==
    [type |-> "ClientConnected", player |-> player, session_id |-> session_id, conn |-> c]
ClientReconnected(player, c) ==
    [type |-> "ClientReconnected", player |-> player, session_id |-> NilSession, conn |-> c]
ClientReconnectedHandle(uuid, c) ==
    [type |-> "ClientReconnectedHandle", player |-> NoPlayer, session_id |-> uuid, conn |-> c]
RequestFreePlayer(c) ==
    [type |-> "RequestFreePlayer", player |-> NoPlayer, session_id |-> NilSession, conn |-> c]

\* ClientMessage { player, request }; conn is the Client task that sent it
ClientMessage(player, request, movement_index, c) ==
    [player |-> player, request |-> request, movement_index |-> movement_index, conn |-> c]

\* Player::count()
n_players == Len(PlayerVariants)

\* self.clients_tx.len()
n_connected(clients) == Cardinality({p \in Players : clients[p] # NoConn})

\* [Player1, Player2].into_iter().find(|p| !self.clients_tx.contains_key(p))
free_player(clients) ==
    IF clients[Player1] = NoConn THEN Player1
    ELSE IF clients[Player2] = NoConn THEN Player2
    ELSE NoneReply

\* faulty variant of the session lookup: an unknown id yields a player
sessions_get_default(sess, uuid) ==
    IF uuid \in DOMAIN sess /\ sess[uuid] # NoPlayer THEN sess[uuid] ELSE Player1

\* self.sessions.get(&uuid).copied()
sessions_get(sess, uuid) ==
    IF uuid \in DOMAIN sess /\ sess[uuid] # NoPlayer THEN sess[uuid] ELSE NoneReply

\* faulty variant of the out of turn test: every player passes
OutOfTurnNever(player, current) == FALSE

\* player != current_player, the out of turn test of handle_turn
OutOfTurn(player, current) == player # current

\* the None of movements.get
NoMovement == <<>>

\* faulty variant of movements.get: the index is not used
movements_get_first(list, movement_index) ==
    IF movement_index < Len(list) THEN list[1] ELSE NoMovement

\* faulty variant of movements.get: an index past the end is clamped
movements_get_clamped(list, movement_index) ==
    IF movement_index < Len(list) THEN list[movement_index + 1] ELSE list[Len(list)]

\* movements.get(movement_index)
movements_get(list, movement_index) ==
    IF movement_index < Len(list) THEN list[movement_index + 1] ELSE NoMovement

\* faulty variant of broadcast_tx.send: the message is not sent
broadcast_send_lost(log, message) == log

\* self.broadcast_tx.send(message): every subscribed receiver gets it, in order
broadcast_send(log, message) == Append(log, message)

\* faulty variant of the turn cap test: one more turn is played
max_turns_reached_late(turns, max_turns) == turns > max_turns

\* turns >= max_turns, the turn cap test of game_loop
max_turns_reached(turns, max_turns) == turns >= max_turns

\* the mpsc receiver of connection c is alive: its Client task runs
ReceiverAlive(c) == client_pc[c] = "running"

\* faulty variant of the tail of try_run: Disconnect is broadcast before what
\* run broadcasts
EndRunDisconnectFirst(result, sent) ==
    /\ run_result' = result
    /\ broadcast_log' = broadcast_log \o <<Disconnect>> \o sent
    /\ srv_pc' = IF n_connected(clients_tx') = 0 THEN "done" ELSE "drain"

\* the tail of try_run once run has returned: disconnect_players broadcasts
\* Disconnect and starts draining
EndRun(result, sent) ==
    /\ run_result' = result
    /\ broadcast_log' = broadcast_log \o sent \o <<Disconnect>>
    /\ srv_pc' = IF n_connected(clients_tx') = 0 THEN "done" ELSE "drain"

\* wait_players_connect: one message of main_rx
WaitPlayersRecv ==
    /\ UNCHANGED env_vars
    /\ srv_pc = "wait_players"
    /\ main_rx # <<>>
    /\ LET msg == Head(main_rx)
           registers == msg.type = "ClientConnected" /\ clients_tx[msg.player] = NoConn
       IN /\ main_rx' = Tail(main_rx)
          /\ clients_tx' = IF registers THEN [clients_tx EXCEPT ![msg.player] = msg.conn]
                           ELSE clients_tx
          /\ sessions' = IF registers THEN [sessions EXCEPT ![msg.session_id] = msg.player]
                         ELSE sessions
          /\ resp' = CASE msg.type = "ClientReconnectedHandle" ->
                            [resp EXCEPT ![msg.conn] = sessions_get(sessions, msg.session_id)]
                       [] msg.type = "RequestFreePlayer" ->
                            [resp EXCEPT ![msg.conn] = free_player(clients_tx)]
                       [] OTHER -> resp
          /\ last_request' = [type |-> msg.type, player |-> msg.player, conn |-> msg.conn,
                              outcome |-> IF msg.type = "ClientConnected" /\ ~registers
                                          THEN "already_connected" ELSE "setup",
                              prev |-> last_request.outcome]
          /\ IF n_connected(clients_tx') < n_players
             THEN srv_pc' = "wait_players" /\ game' = game
             ELSE srv_pc' = "game_loop" /\ game' = NewGame
    /\ UNCHANGED <<run_result, disconnected, clients_rx, broadcast_log, current_player,
                   movements, hs_pc, hs_kind, client_pc, conn_player, conn_sid, remote_open,
                   server_rx, bcast_pos, remote_out, turn_sent>>

\* run: tokio::time::timeout expires while waiting for the players
SetupTimeout ==
    /\ UNCHANGED env_vars
    /\ srv_pc = "wait_players"
    /\ UNCHANGED <<clients_tx, sessions, disconnected, main_rx, clients_rx, game,
                   current_player, movements, conn_vars, turn_sent>>
    /\ EndRun("err", <<>>)
    /\ last_request' = NoRequest

\* faulty variant of the match of game_loop: the turn cap is tested before
\* the status
game_loop_match_cap_first(status, max_turns) ==
    IF max_turns_reached(status.turns, max_turns) THEN "MaxTurns"
    ELSE IF status.kind = "Finished" THEN "Finished"
    ELSE "Turn"

\* game_loop, `match game.status()`: the arm taken, and within Playing
\* whether the cap ends the game
game_loop_match(status, max_turns) ==
    IF status.kind = "Finished" THEN "Finished"
    ELSE IF max_turns_reached(status.turns, max_turns) THEN "MaxTurns"
    ELSE "Turn"

\* game_loop(max_turns): one iteration up to the select of handle_turn
GameLoopUpTo(max_turns) ==
    /\ UNCHANGED env_vars
    /\ srv_pc = "game_loop"
    /\ last_request' = NoRequest
    /\ UNCHANGED <<clients_tx, sessions, disconnected, main_rx, clients_rx, game,
                   hs_pc, hs_kind, resp, client_pc, conn_player, conn_sid, remote_open,
                   bcast_pos, remote_out>>
    /\ IF game_loop_match(game.status, max_turns) = "Finished"
       THEN /\ EndRun("ok", <<GameFinished(ResultFinished(game.status.player,
                                   game.status.turns, game.status.scores))>>)
            /\ UNCHANGED <<current_player, movements, server_rx, turn_sent>>
       ELSE IF game_loop_match(game.status, max_turns) = "MaxTurns"
       THEN /\ EndRun("ok", <<GameFinished(ResultMaxTurns(game.status.turns,
                                   game.status.scores))>>)
            /\ UNCHANGED <<current_player, movements, server_rx, turn_sent>>
       ELSE LET player == game.status.player
                list == available_movements(game)
                c == clients_tx[player]
            IN /\ current_player' = player
               /\ movements' = list
               /\ IF player \in disconnected
                  THEN /\ srv_pc' = "handle_turn"
                       /\ turn_sent' = {}
                       /\ UNCHANGED <<run_result, broadcast_log, server_rx>>
                  ELSE IF c # NoConn /\ ReceiverAlive(c)
                  THEN /\ srv_pc' = "handle_turn"
                       /\ server_rx' = [server_rx EXCEPT ![c] = Append(@, Turn(list))]
                       /\ turn_sent' = {c}
                       /\ UNCHANGED <<run_result, broadcast_log>>
                  ELSE /\ EndRun("err", <<>>)
                       /\ turn_sent' = {}
                       /\ UNCHANGED server_rx

\* game_loop with the max_turns of try_run
GameLoop == GameLoopUpTo(MaxTurns)

\* handle_turn: the main_rx branch of the select
HandleMain ==
    /\ UNCHANGED env_vars
    /\ srv_pc = "handle_turn"
    /\ main_rx # <<>>
    /\ LET msg == Head(main_rx)
           resumes == msg.type = "ClientReconnected" /\ msg.player \in disconnected
           resend == resumes /\ msg.player = current_player
       IN /\ main_rx' = Tail(main_rx)
          /\ disconnected' = IF resumes THEN disconnected \ {msg.player} ELSE disconnected
          /\ clients_tx' = IF resumes THEN [clients_tx EXCEPT ![msg.player] = msg.conn]
                           ELSE clients_tx
          /\ resp' = CASE msg.type = "ClientReconnectedHandle" ->
                            [resp EXCEPT ![msg.conn] = sessions_get(sessions, msg.session_id)]
                       [] msg.type = "RequestFreePlayer" ->
                            [resp EXCEPT ![msg.conn] = free_player(clients_tx)]
                       [] OTHER -> resp
          /\ last_request' = [type |-> msg.type, player |-> msg.player, conn |-> msg.conn,
                              outcome |-> IF resumes THEN "resumed" ELSE "play",
                              prev |-> last_request.outcome]
          /\ IF resend /\ ~ReceiverAlive(msg.conn)
             THEN /\ EndRun("err", <<>>)
                  /\ UNCHANGED <<server_rx, turn_sent>>
             ELSE /\ server_rx' = IF resend
                                  THEN [server_rx EXCEPT ![msg.conn] = Append(@, Turn(movements))]
                                  ELSE server_rx
                  /\ turn_sent' = IF resend THEN turn_sent \cup {msg.conn} ELSE turn_sent
                  /\ UNCHANGED <<srv_pc, run_result, broadcast_log>>
    /\ UNCHANGED <<sessions, clients_rx, game, current_player, movements, hs_pc, hs_kind,
                   client_pc, conn_player, conn_sid, remote_open, bcast_pos, remote_out>>

\* handle_turn: the clients_rx branch of the select
HandleClient ==
    /\ UNCHANGED env_vars
    /\ srv_pc = "handle_turn"
    /\ clients_rx # <<>>
    /\ LET message == Head(clients_rx)
           player == message.player
           movement == movements_get(movements, message.movement_index)
           applies == /\ message.request = "Choice"
                      /\ ~OutOfTurn(player, current_player)
                      /\ movement # NoMovement
           outcome == IF message.request = "Disconnect" THEN "disconnected"
                      ELSE IF OutOfTurn(player, current_player) THEN "out_of_turn"
                      ELSE IF movement = NoMovement THEN "invalid_index"
                      ELSE "applied"
       IN /\ clients_rx' = Tail(clients_rx)
          /\ last_request' = [type |-> message.request, player |-> player,
                              conn |-> message.conn, outcome |-> outcome,
                              prev |-> last_request.outcome]
          /\ IF message.request = "Disconnect"
             THEN /\ clients_tx' = [clients_tx EXCEPT ![player] = NoConn]
                  /\ disconnected' = disconnected \cup {player}
                  /\ UNCHANGED <<srv_pc, game, broadcast_log, turn_sent>>
             ELSE IF applies
             THEN /\ game' = apply_movement_unchecked(game, movement)
                  /\ broadcast_log' = broadcast_send(broadcast_log,
                                             Movement(player, movement, game'.status.scores))
                  /\ srv_pc' = "game_loop"
                  /\ UNCHANGED <<clients_tx, disconnected, turn_sent>>
             ELSE UNCHANGED <<srv_pc, game, broadcast_log, clients_tx, disconnected, turn_sent>>
    /\ UNCHANGED <<run_result, sessions, main_rx, current_player, movements, conn_vars>>

\* disconnect_players: one message of clients_rx
Drain ==
    /\ UNCHANGED env_vars
    /\ srv_pc = "drain"
    /\ clients_rx # <<>>
    /\ LET message == Head(clients_rx)
           removes == message.request = "Disconnect" /\ clients_tx[message.player] # NoConn
       IN /\ clients_rx' = Tail(clients_rx)
          /\ clients_tx' = IF removes THEN [clients_tx EXCEPT ![message.player] = NoConn]
                           ELSE clients_tx
          /\ last_request' = [type |-> message.request, player |-> message.player,
                              conn |-> message.conn,
                              outcome |-> IF removes THEN "drained" ELSE "drain_ignored",
                              prev |-> last_request.outcome]
          /\ srv_pc' = IF n_connected(clients_tx') = 0 THEN "done" ELSE "drain"
    /\ UNCHANGED <<run_result, sessions, disconnected, main_rx, broadcast_log, game,
                   current_player, movements, conn_vars, turn_sent>>


(***************************************************************************)
(* Handshake task (server/handshake.rs)                                    *)
(***************************************************************************)
\* the coordinator has returned from try_run: the server task signals the
\* shutdown and the runtime ends with every task it spawned
ServerGone == srv_pc = "done"

\* the session ids some remote peer holds from a Welcome
WelcomedSessions ==
    {sid \in Conns : \E c \in Conns : \E k \in 1..Len(remote_out[c]) :
        remote_out[c][k] = Welcome(sid)}

\* the coordinator is in game_loop: clients_rx is being read by handle_turn
InPlay == srv_pc \in {"game_loop", "handle_turn"}

\* the coordinator has not left run: main_rx is being read
Serving == srv_pc \in {"wait_players", "game_loop", "handle_turn"}

\* every server-side task stands at an await on its peer or on the
\* coordinator: no handshake task has a reply to act on, no running Client
\* task has a direct message or a broadcast left to forward.  The remote
\* peers act at the pace of the network, the tasks at the pace of the process
Quiescent ==
    \A c \in Conns :
        /\ hs_pc[c] \in {"wait_free", "wait_session"} => resp[c] = NoReply
        /\ hs_pc[c] # "notify"
        /\ client_pc[c] = "running" =>
                server_rx[c] = <<>> /\ bcast_pos[c] = Len(broadcast_log)

\* connections are numbered in the order of their first message
NextToSpeak(c) ==
    /\ hs_pc[c] = "start"
    /\ (IF c = 1 THEN TRUE ELSE hs_pc[c - 1] # "start")
    /\ Serving
    /\ Quiescent

\* the connections whose remote peer holds the Welcome that answered its Hello
HelloWelcomed ==
    {d \in Conns : hs_kind[d] = "hello" /\ \E k \in 1..Len(remote_out[d]) :
        remote_out[d][k].type = "welcome"}

\* the first message is Hello: RequestFreePlayer goes to the coordinator
RemoteHello(c) ==
    /\ UNCHANGED <<n_sends, n_closes, closed_before>>
    /\ NextToSpeak(c)
    /\ welcomed_before' = [welcomed_before EXCEPT ![c] = HelloWelcomed]
    /\ hs_kind' = [hs_kind EXCEPT ![c] = "hello"]
    /\ hs_pc' = [hs_pc EXCEPT ![c] = "wait_free"]
    /\ main_rx' = Append(main_rx, RequestFreePlayer(c))
    /\ UNCHANGED <<srv_pc, run_result, clients_tx, sessions, disconnected, clients_rx,
                   broadcast_log, game, current_player, movements, resp, client_pc,
                   conn_player, conn_sid, remote_open, server_rx, bcast_pos, remote_out,
                   turn_sent, last_request>>

\* the session ids a remote peer may present: one it was welcomed with, or
\* one the server never issued
PresentedSessions == WelcomedSessions \cup {NilSession}

\* the first message is Reconnect { session_id: uuid }
RemoteReconnect(c) ==
    /\ UNCHANGED <<n_sends, n_closes, welcomed_before>>
    /\ NextToSpeak(c)
    /\ \E uuid \in PresentedSessions :
          /\ conn_sid' = [conn_sid EXCEPT ![c] = uuid]
          /\ main_rx' = Append(main_rx, ClientReconnectedHandle(uuid, c))
    /\ closed_before' = [closed_before EXCEPT ![c] = {d \in Conns : ~remote_open[d]}]
    /\ hs_kind' = [hs_kind EXCEPT ![c] = "reconnect"]
    /\ hs_pc' = [hs_pc EXCEPT ![c] = "wait_session"]
    /\ UNCHANGED <<srv_pc, run_result, clients_tx, sessions, disconnected, clients_rx,
                   broadcast_log, game, current_player, movements, resp, client_pc,
                   conn_player, remote_open, server_rx, bcast_pos, remote_out,
                   turn_sent, last_request>>

\* resp_rx.await returned: Welcome and Client::new + spawn, or Reject.
\* written tells whether sink.send succeeded; it can fail only on a closed
\* transport
HandshakeReply(c, written) ==
    /\ UNCHANGED env_vars
    /\ ~ServerGone
    /\ hs_pc[c] \in {"wait_free", "wait_session"}
    /\ resp[c] # NoReply
    /\ written \/ ~remote_open[c]
    /\ LET session_id == IF hs_kind[c] = "hello" THEN NewSessionId(c) ELSE conn_sid[c]
           out == IF resp[c] = NoneReply
                  THEN Reject(IF hs_kind[c] = "hello" THEN "Server full" ELSE "Unknown Session")
                  ELSE Welcome(session_id)
           spawns == resp[c] # NoneReply /\ written
       IN /\ remote_out' = IF written /\ remote_open[c]
                           THEN [remote_out EXCEPT ![c] = Append(@, out)]
                           ELSE remote_out
          /\ conn_sid' = IF resp[c] # NoneReply THEN [conn_sid EXCEPT ![c] = session_id]
                         ELSE conn_sid
          /\ hs_pc' = [hs_pc EXCEPT ![c] = IF spawns THEN "notify" ELSE "done"]
          /\ client_pc' = IF spawns THEN [client_pc EXCEPT ![c] = "running"] ELSE client_pc
          /\ conn_player' = IF spawns THEN [conn_player EXCEPT ![c] = resp[c]] ELSE conn_player
          /\ bcast_pos' = IF spawns THEN [bcast_pos EXCEPT ![c] = Len(broadcast_log)]
                          ELSE bcast_pos
    /\ UNCHANGED <<srv_vars, hs_kind, resp, remote_open, server_rx, turn_sent, last_request>>

\* main_tx.send(ClientConnected | ClientReconnected) after the spawn
HandshakeNotify(c) ==
    /\ UNCHANGED env_vars
    /\ ~ServerGone
    /\ hs_pc[c] = "notify"
    /\ hs_pc' = [hs_pc EXCEPT ![c] = "done"]
    /\ main_rx' = IF hs_kind[c] = "hello"
                  THEN Append(main_rx, ClientConnected(conn_player[c], conn_sid[c], c))
                  ELSE Append(main_rx, ClientReconnected(conn_player[c], c))
    /\ UNCHANGED <<srv_pc, run_result, clients_tx, sessions, disconnected, clients_rx,
                   broadcast_log, game, current_player, movements, hs_kind, resp, client_pc,
                   conn_player, conn_sid, remote_open, server_rx, bcast_pos, remote_out,
                   turn_sent, last_request>>

(***************************************************************************)
(* Client task (server/client.rs) and its remote peer                      *)
(***************************************************************************)
\* some mpsc::Sender of the direct channel of c still exists
SenderHeld(c) ==
    \/ hs_pc[c] = "notify"
    \/ \E p \in Players : clients_tx[p] = c
    \/ \E k \in 1..Len(main_rx) :
            main_rx[k].conn = c /\ main_rx[k].type \in {"ClientConnected", "ClientReconnected"}

\* Client task c has a direct message or a broadcast left to forward
Pending(c) ==
    client_pc[c] = "running" /\ (server_rx[c] # <<>> \/ bcast_pos[c] < Len(broadcast_log))

\* the forwarding steps of different Client tasks commute and nothing else
\* reads what they write: they are explored in the order of the connections
ForwardsNext(c) == \A d \in Conns : d < c => ~Pending(d)

\* the remote peer closes its transport
RemoteClose(c) ==
    /\ ~ServerGone
    /\ n_closes < MaxCloses
    /\ n_sends + n_closes < MaxActs
    /\ hs_pc[c] # "start"
    /\ remote_open[c]
    /\ Quiescent
    /\ n_closes' = n_closes + 1
    /\ remote_open' = [remote_open EXCEPT ![c] = FALSE]
    /\ UNCHANGED <<n_sends, closed_before, welcomed_before>>
    /\ UNCHANGED <<srv_vars, hs_pc, hs_kind, resp, client_pc, conn_player, conn_sid,
                   server_rx, bcast_pos, remote_out, turn_sent, last_request>>

\* the remote peer sends Choice { movement_index } and Client::run forwards it
RemoteChoice(c, movement_index) ==
    /\ n_sends < MaxSends
    /\ n_sends + n_closes < MaxActs
    /\ InPlay
    /\ client_pc[c] = "running"
    /\ remote_open[c]
    /\ Quiescent
    /\ n_sends' = n_sends + 1
    /\ UNCHANGED <<n_closes, closed_before, welcomed_before>>
    /\ clients_rx' = Append(clients_rx,
                            ClientMessage(conn_player[c], "Choice", movement_index, c))
    /\ UNCHANGED <<srv_pc, run_result, clients_tx, sessions, disconnected, main_rx,
                   broadcast_log, game, current_player, movements, conn_vars, turn_sent,
                   last_request>>

\* Client::run, server_rx branch: a direct message goes to the transport;
\* a failed write ends run with an error, before the Disconnect request
ClientDirect(c, written) ==
    /\ UNCHANGED env_vars
    /\ ~ServerGone
    /\ client_pc[c] = "running"
    /\ server_rx[c] # <<>>
    /\ ForwardsNext(c)
    /\ written \/ ~remote_open[c]
    /\ server_rx' = [server_rx EXCEPT ![c] = Tail(@)]
    /\ remote_out' = IF written /\ remote_open[c]
                     THEN [remote_out EXCEPT ![c] =
                              Append(@, handle_server_message(conn_player[c], Head(server_rx[c])))]
                     ELSE remote_out
    /\ client_pc' = IF written THEN client_pc ELSE [client_pc EXCEPT ![c] = "ended"]
    /\ UNCHANGED <<srv_vars, hs_pc, hs_kind, resp, conn_player, conn_sid, remote_open,
                   bcast_pos, turn_sent, last_request>>

\* Client::run, broadcast_rx branch
ClientBroadcast(c, written) ==
    /\ UNCHANGED env_vars
    /\ ~ServerGone
    /\ client_pc[c] = "running"
    /\ bcast_pos[c] < Len(broadcast_log)
    /\ ForwardsNext(c)
    /\ written \/ ~remote_open[c]
    /\ bcast_pos' = [bcast_pos EXCEPT ![c] = @ + 1]
    /\ remote_out' = IF written /\ remote_open[c]
                     THEN [remote_out EXCEPT ![c] =
                              Append(@, handle_server_broadcast(conn_player[c],
                                                                broadcast_log[bcast_pos[c] + 1]))]
                     ELSE remote_out
    /\ client_pc' = IF written THEN client_pc ELSE [client_pc EXCEPT ![c] = "ended"]
    /\ UNCHANGED <<srv_vars, hs_pc, hs_kind, resp, conn_player, conn_sid, remote_open,
                   server_rx, turn_sent, last_request>>

\* Client::run, stream branch returns None: break, then the Disconnect request
ClientEOF(c) ==
    /\ UNCHANGED env_vars
    /\ ~ServerGone
    /\ client_pc[c] = "running"
    /\ ~remote_open[c]
    /\ client_pc' = [client_pc EXCEPT ![c] = "ended"]
    /\ clients_rx' = Append(clients_rx, ClientMessage(conn_player[c], "Disconnect", 0, c))
    /\ UNCHANGED <<srv_pc, run_result, clients_tx, sessions, disconnected, main_rx,
                   broadcast_log, game, current_player, movements, hs_pc, hs_kind, resp,
                   conn_player, conn_sid, remote_open, server_rx, bcast_pos, remote_out,
                   turn_sent, last_request>>

\* Client::run, server_rx branch returns None: bail, no Disconnect request
ClientChannelClosed(c) ==
    /\ UNCHANGED env_vars
    /\ ~ServerGone
    /\ client_pc[c] = "running"
    /\ server_rx[c] = <<>>
    /\ ~SenderHeld(c)
    /\ client_pc' = [client_pc EXCEPT ![c] = "ended"]
    /\ UNCHANGED <<srv_vars, hs_pc, hs_kind, resp, conn_player, conn_sid, remote_open,
                   server_rx, bcast_pos, remote_out, turn_sent, last_request>>

\* an index no candidate list reaches
InvalidIndex == BOARD_LENGTH * BOARD_LENGTH * BOARD_LENGTH * BOARD_LENGTH

ChoiceIndices == (0..MaxChoice) \cup {InvalidIndex}

Next ==
    \/ WaitPlayersRecv
    \/ SetupTimeout
    \/ GameLoop
    \/ HandleMain
    \/ HandleClient
    \/ Drain
    \/ \E c \in Conns : RemoteHello(c)
    \/ \E c \in Conns : RemoteReconnect(c)
    \/ \E c \in Conns : \E written \in BOOLEAN : HandshakeReply(c, written)
    \/ \E c \in Conns : HandshakeNotify(c)
    \/ \E c \in Conns : RemoteClose(c)
    \/ \E c \in Conns : \E i \in ChoiceIndices : RemoteChoice(c, i)
    \/ \E c \in Conns : \E written \in BOOLEAN : ClientDirect(c, written)
    \/ \E c \in Conns : \E written \in BOOLEAN : ClientBroadcast(c, written)
    \/ \E c \in Conns : ClientEOF(c)
    \/ \E c \in Conns : ClientChannelClosed(c)

Spec == Init /\ [][Next]_vars

(***************************************************************************)
(* Properties of the session coordinator                                   *)
(***************************************************************************)
\* the step takes the request at the head of clients_rx in handle_turn
TakesClientRequest ==
    srv_pc = "handle_turn" /\ clients_rx # <<>> /\ clients_rx' = Tail(clients_rx)

\* the step takes the message at the head of main_rx
TakesMainMessage ==
    srv_pc \in {"wait_players", "handle_turn"} /\ main_rx # <<>> /\ main_rx' = Tail(main_rx)

\* the step broadcasts no Movement
NoMovementBroadcast ==
    \A k \in (Len(broadcast_log) + 1)..Len(broadcast_log') : broadcast_log'[k].type # "movement"

\* the step dispatches a direct message to connection c
TurnDispatched(c) == Len(server_rx'[c]) = Len(server_rx[c]) + 1

\* the last Turn the remote peer of c has received
LastTurnSeen(c) ==
    LET ks == {k \in 1..Len(remote_out[c]) : remote_out[c][k].type = "turn"}
    IN remote_out[c][CHOOSE k \in ks : \A j \in ks : j <= k]

\* a movement as the client mapped to player sees it: Player2 sees the board
\* rotated by 180 degrees
SeenBy(player, movement) ==
    IF player = Player1 THEN movement
    ELSE <<<<BOARD_LENGTH - 1 - movement[1][1], BOARD_LENGTH - 1 - movement[1][2]>>,
           <<BOARD_LENGTH - 1 - movement[2][1], BOARD_LENGTH - 1 - movement[2][2]>>>>

\* both players have been registered
BothRegistered == \A p \in Players : \E sid \in Conns : sessions[sid] = p

\* C1: while the player whose turn it is stands in the disconnected set the
\* game is paused: no step applies a move (the game is unchanged) and no step
\* broadcasts a Movement
C1_PausedWhileDisconnected ==
    [][(InPlay /\ game.status.kind = "Playing" /\ game.status.player \in disconnected)
         => (game' = game /\ NoMovementBroadcast)]_vars

C3_TurnDispatch ==
    [][\A c \in Conns :
         /\ TurnDispatched(c) =>
              /\ InPlay
              /\ game.status.kind = "Playing"
              /\ BothRegistered
              /\ conn_player[c] = game.status.player
              /\ clients_tx'[game.status.player] = c
              /\ current_player' = game.status.player
              /\ Last(server_rx'[c]) = Turn(movements')
              /\ movements' = available_movements(game)
              /\ \A d \in Conns \ {c} : server_rx'[d] = server_rx[d]
              /\ srv_pc = "game_loop" => last_request.outcome \in {"applied", "setup"}
              /\ srv_pc = "handle_turn" => /\ current_player \in disconnected
                                           /\ clients_tx[current_player] = NoConn
              /\ game.status.turns = 0 => game.status.player = Player1
         /\ (conn_player'[c] = Player2 /\ Len(game'.history) = 0) =>
              /\ server_rx'[c] = <<>>
              /\ \A k \in 1..Len(remote_out'[c]) : remote_out'[c][k].type # "turn"]_vars

\* C3 happens: a Turn was dispatched again to the connection that
\* reconnected for the player whose turn it is
C3_Witness ==
    \E c \in Conns :
        /\ hs_kind[c] = "reconnect"
        /\ c \in turn_sent
        /\ srv_pc = "handle_turn"
        /\ clients_tx[current_player] = c

\* the step applies an in-range Choice of the current player
AppliesChoice ==
    /\ TakesClientRequest
    /\ Head(clients_rx).request = "Choice"
    /\ Head(clients_rx).player = current_player
    /\ Head(clients_rx).movement_index < Len(movements)

C5_OutOfTurnIgnored ==
    [][(/\ TakesClientRequest
        /\ Head(clients_rx).request = "Choice"
        /\ Head(clients_rx).player # current_player)
         => UNCHANGED <<game, current_player, movements, broadcast_log, srv_pc, server_rx,
                        clients_tx, disconnected, turn_sent>>]_vars

\* C5 happens: an out of turn Choice was taken and the turn is still open
C5_Witness ==
    /\ last_request.outcome = "out_of_turn"
    /\ last_request.type = "Choice"
    /\ srv_pc = "handle_turn"

\* C6: a Choice of the current player with movement_index >= |candidates| is
\* ignored: the game is unchanged, nothing is broadcast or dispatched and the
\* turn stays open with the same candidate list; an in-range Choice of the
\* same player taken next is applied
C6_InvalidIndexIgnored ==
    [][(/\ TakesClientRequest
        /\ Head(clients_rx).request = "Choice"
        /\ Head(clients_rx).player = current_player)
         => IF Head(clients_rx).movement_index >= Len(movements)
            THEN UNCHANGED <<game, current_player, movements, broadcast_log, srv_pc,
                             server_rx, clients_tx, disconnected, turn_sent>>
            ELSE last_request.outcome = "invalid_index" =>
                    /\ game'.history =
                          Append(game.history, movements[Head(clients_rx).movement_index + 1])
                    /\ srv_pc' = "game_loop"]_vars

\* C6 happens: an in-range Choice was applied right after a Choice with an
\* out-of-range index was ignored
C6_Witness ==
    /\ last_request.outcome = "applied"
    /\ last_request.prev = "invalid_index"

\* C7: when the connection of the current player dropped after its Turn was
\* delivered and a new connection then reconnected with the session id of
\* that player, the coordinator, on the ClientReconnected of the new
\* connection, sends it the Turn with the same candidate list and leaves the
\* game alone; the new connection was welcomed with the same session id
C7_ReconnectResendsTurn ==
    [][(/\ srv_pc = "handle_turn"
        /\ TakesMainMessage
        /\ Head(main_rx).type = "ClientReconnected"
        /\ Head(main_rx).player = current_player
        /\ \E d \in closed_before[Head(main_rx).conn] :
             /\ d \in turn_sent
             /\ conn_player[d] = current_player
             /\ conn_sid[d] = conn_sid[Head(main_rx).conn]
             /\ \E k \in 1..Len(remote_out[d]) : remote_out[d][k].type = "turn")
         => LET c == Head(main_rx).conn
            IN /\ server_rx'[c] = Append(server_rx[c], Turn(movements))
               /\ movements' = movements
               /\ game' = game
               /\ NoMovementBroadcast]_vars

\* the session id is not in the session map of the coordinator
UnknownSession(uuid) == \A sid \in Conns : sid = uuid => sessions[sid] = NoPlayer

\* C8: a reconnect with a session id unknown to the coordinator is answered
\* with Reject "Unknown Session" and closed: the lookup answers none and
\* leaves the client map, the disconnected set and the session map alone, and
\* the handshake task writes the Reject and ends without spawning a Client
C8_UnknownSessionRejected ==
    [][/\ (TakesMainMessage /\ Head(main_rx).type = "ClientReconnectedHandle"
                            /\ UnknownSession(Head(main_rx).session_id))
            => /\ resp'[Head(main_rx).conn] = NoneReply
               /\ UNCHANGED <<clients_tx, disconnected, sessions>>
       /\ \A c \in Conns :
            (hs_pc[c] = "wait_session" /\ resp[c] = NoneReply /\ hs_pc'[c] # hs_pc[c])
              => /\ hs_pc'[c] = "done"
                 /\ client_pc'[c] = "none"
                 /\ UNCHANGED <<clients_tx, disconnected, sessions, main_rx, server_rx>>
                 /\ remote_out'[c] = IF remote_open[c]
                                     THEN Append(remote_out[c], Reject("Unknown Session"))
                                     ELSE remote_out[c]]_vars

\* C8 happens: a reconnect was answered with Reject "Unknown Session" and no
\* Client task exists for it
C8_Witness ==
    \E c \in Conns :
        /\ hs_kind[c] = "reconnect"
        /\ remote_out[c] = <<Reject("Unknown Session")>>
        /\ hs_pc[c] = "done"
        /\ client_pc[c] = "none"

\* C9: a session id delivered in a Welcome is valid: a lookup of that id
\* answers its player, never none
C9_WelcomedSessionKnown ==
    [][(/\ TakesMainMessage
        /\ Head(main_rx).type = "ClientReconnectedHandle"
        /\ Head(main_rx).session_id \in WelcomedSessions)
         => resp'[Head(main_rx).conn] # NoneReply]_vars

\* C10: in the play phase every RequestFreePlayer is answered with none
C10_NoFreeSlotInPlay ==
    [][(/\ srv_pc = "handle_turn"
        /\ TakesMainMessage
        /\ Head(main_rx).type = "RequestFreePlayer")
         => resp'[Head(main_rx).conn] = NoneReply]_vars

\* C11: once two connections have each received Welcome in answer to Hello,
\* a Hello sent later by another connection is never answered with a player:
\* it gets no Welcome and no Client task
C11_LateHelloRejected ==
    \A c \in Conns :
        (hs_kind[c] = "hello" /\ Cardinality(welcomed_before[c] \ {c}) >= 2)
            => /\ resp[c] \in {NoReply, NoneReply}
               /\ client_pc[c] = "none"
               /\ \A k \in 1..Len(remote_out[c]) : remote_out[c][k].type # "welcome"

\* the connections whose Hello handshake has completed: Welcome was written
\* and the Client task spawned
HelloCompleted == {d \in Conns : hs_kind[d] = "hello" /\ client_pc[d] # "none"}

\* C12: in the setup RequestFreePlayer is answered with the first of
\* [Player1, Player2] that is not in the client map, none if both are; the
\* first connection to complete a Hello handshake becomes Player1 and the
\* second Player2
C12_SlotsInOrder ==
    [][/\ (srv_pc = "wait_players" /\ TakesMainMessage
                                   /\ Head(main_rx).type = "RequestFreePlayer")
            => resp'[Head(main_rx).conn] =
                   IF clients_tx[Player1] = NoConn THEN Player1
                   ELSE IF clients_tx[Player2] = NoConn THEN Player2
                   ELSE NoneReply
       /\ \A c \in Conns :
            (hs_kind[c] = "hello" /\ client_pc[c] = "none" /\ client_pc'[c] = "running")
              => /\ Cardinality(HelloCompleted) = 0 => conn_player'[c] = Player1
                 /\ Cardinality(HelloCompleted) = 1 => conn_player'[c] = Player2]_vars

\* C13: a reconnect with a valid session id takes over the session: when the
\* coordinator takes the ClientReconnected of the welcomed connection, in
\* the setup or in the play phase, whether or not it has handled a Disconnect
\* of the older transport, the direct channel of the player becomes the
\* channel of the new connection
C13_ReconnectTakesOver ==
    [][(TakesMainMessage /\ Head(main_rx).type = "ClientReconnected")
         => clients_tx'[Head(main_rx).player] = Head(main_rx).conn]_vars

\* the Movement broadcasts sent so far
MovementsBroadcast == SelectSeq(broadcast_log, LAMBDA m : m.type = "movement")

\* C14: the Movement of move N is broadcast before the Turn of move N+1 is
\* dispatched: when a Turn is dispatched every applied move has its Movement
\* in the broadcast log, in the order of the moves, and no move is applied
\* without its Movement
C14_MovementBeforeNextTurn ==
    [][/\ Len(MovementsBroadcast') = Len(game'.history)
       /\ \A c \in Conns :
            TurnDispatched(c) =>
                /\ Len(MovementsBroadcast) = Len(game.history)
                /\ \A n \in 1..Len(game.history) :
                      MovementsBroadcast[n].movement = game.history[n]]_vars

\* C14 happens: the Turn of the second move was dispatched
C14_Witness ==
    /\ srv_pc = "handle_turn"
    /\ Len(game.history) = 1
    /\ turn_sent # {}
    /\ Len(MovementsBroadcast) = 1

\* the step writes the Turn at the head of the direct channel of c to its
\* transport
TurnDelivered(c) ==
    /\ server_rx[c] # <<>>
    /\ Head(server_rx[c]).type = "turn"
    /\ server_rx'[c] = Tail(server_rx[c])
    /\ remote_out'[c] # remote_out[c]

\* C15: the client of the player who moves next receives the Movement of
\* move N before the Turn of move N+1: when its Client task writes the Turn
\* of the open turn no Movement waits in its broadcast receiver
C15_MovementSeenBeforeTurn ==
    [][\A c \in Conns :
         (/\ TurnDelivered(c)
          /\ srv_pc = "handle_turn"
          /\ conn_player[c] = current_player
          /\ Head(server_rx[c]) = Turn(movements)) =>
            \A k \in (bcast_pos[c] + 1)..Len(broadcast_log) :
                broadcast_log[k].type # "movement"]_vars

\* the step writes the broadcast next in the receiver of c to its transport
BroadcastDelivered(c) ==
    /\ client_pc[c] = "running"
    /\ bcast_pos[c] < Len(broadcast_log)
    /\ bcast_pos'[c] = bcast_pos[c] + 1
    /\ Len(remote_out'[c]) = Len(remote_out[c]) + 1

\* the broadcast next in the receiver of c
NextBroadcast(c) == broadcast_log[bcast_pos[c] + 1]

FinishedAt == {k \in 1..Len(broadcast_log) : broadcast_log[k].type = "game_finished"}

\* the game has ended: by a win or by the turn cap
GameEnded ==
    \/ game.status.kind = "Finished"
    \/ game.status.kind = "Playing" /\ game.status.turns >= MaxTurns

MaxListLen == 2

\* the board indices drawn: a corner cell of each home triangle and a cell
\* off the centre
SampleIdx == {<<0, 12>>, <<16, 4>>, <<7, 9>>}

SampleMovements == {m \in SampleIdx \X SampleIdx : m[1] # m[2]}

SampleLists ==
    UNION {[1..n -> SampleMovements] : n \in 0..MaxListLen}

SampleScores == {<<0, 3>>, <<5, 2>>}

SampleBroadcasts ==
    {Movement(p, m, sc) : p \in Players, m \in SampleMovements, sc \in SampleScores}
    \cup {GameFinished(ResultFinished(p, MaxTurns, sc)) : p \in Players, sc \in SampleScores}
    \cup {GameFinished(ResultMaxTurns(MaxTurns, sc)) : sc \in SampleScores}
    \cup {Disconnect}

InitPerspective ==
    /\ srv_pc = "game_loop"
    /\ run_result = "none"
    /\ clients_tx = [Player1 |-> 1, Player2 |-> 2]
    /\ sessions = [sid \in Conns |-> IF sid = 1 THEN Player1
                                     ELSE IF sid = 2 THEN Player2 ELSE NoPlayer]
    /\ disconnected = {}
    /\ main_rx = <<>>
    /\ clients_rx = <<>>
    /\ \E b \in SampleBroadcasts : broadcast_log = <<b>>
    /\ game = NewGame
    /\ current_player = NoPlayer
    /\ movements = <<>>
    /\ hs_pc = [c \in Conns |-> IF c \in {1, 2} THEN "done" ELSE "start"]
    /\ hs_kind = [c \in Conns |-> IF c \in {1, 2} THEN "hello" ELSE "none"]
    /\ resp = [c \in Conns |-> NoReply]
    /\ client_pc = [c \in Conns |-> IF c \in {1, 2} THEN "running" ELSE "none"]
    /\ conn_player = [c \in Conns |-> IF c = 1 THEN Player1
                                      ELSE IF c = 2 THEN Player2 ELSE NoPlayer]
    /\ conn_sid = [c \in Conns |-> IF c \in {1, 2} THEN NewSessionId(c) ELSE NilSession]
    /\ remote_open = [c \in Conns |-> TRUE]
    /\ \E list \in SampleLists :
          server_rx = [c \in Conns |-> IF c \in {1, 2} THEN <<Turn(list)>> ELSE <<>>]
    /\ bcast_pos = [c \in Conns |-> 0]
    /\ remote_out = [c \in Conns |-> <<>>]
    /\ turn_sent = {}
    /\ last_request = NoRequest
    /\ n_sends = 0
    /\ n_closes = 0
    /\ closed_before = [c \in Conns |-> {}]
    /\ welcomed_before = [c \in Conns |-> {}]

NextPerspective ==
    \/ \E c \in Conns : ClientDirect(c, TRUE)
    \/ \E c \in Conns : ClientBroadcast(c, TRUE)

SpecPerspective == InitPerspective /\ [][NextPerspective]_vars

\* the step writes the direct message at the head of the channel of c to its
\* transport
DirectDelivered(c) ==
    /\ client_pc[c] = "running"
    /\ server_rx[c] # <<>>
    /\ server_rx'[c] = Tail(server_rx[c])
    /\ Len(remote_out'[c]) = Len(remote_out[c]) + 1

\* a pair of scores with its entries exchanged
Swapped(scores) == <<scores[2], scores[1]>>

\* a message as the client mapped to Player2 is to see it
SeenByPlayer2(message) ==
    CASE message.type = "turn" ->
            [type |-> "turn",
             movements |-> [k \in 1..Len(message.movements) |->
                               SeenBy(Player2, message.movements[k])]]
      [] message.type = "movement" ->
            [type |-> "movement",
             player |-> IF message.player = Player1 THEN Player2 ELSE Player1,
             movement |-> SeenBy(Player2, message.movement),
             scores |-> Swapped(message.scores)]
      [] message.type = "game_finished" ->
            [type |-> "game_finished",
             result |-> [type |-> message.result.type,
                         winner |-> IF message.result.winner = Player1 THEN Player2
                                    ELSE IF message.result.winner = Player2 THEN Player1
                                    ELSE NoPlayer,
                         total_turns |-> message.result.total_turns,
                         scores |-> Swapped(message.result.scores)]]
      [] OTHER -> message

HandshakeStep(c) ==
    (\E written \in BOOLEAN : HandshakeReply(c, written)) \/ HandshakeNotify(c)

\* a step of the Client task of connection c
ClientStep(c) ==
    \/ \E written \in BOOLEAN : ClientDirect(c, written)
    \/ \E written \in BOOLEAN : ClientBroadcast(c, written)
    \/ ClientEOF(c)
    \/ ClientChannelClosed(c)

SpecDrain ==
    /\ Init
    /\ [][Next]_vars
    /\ WF_vars(Drain)
    /\ \A c \in Conns : WF_vars(HandshakeStep(c)) /\ WF_vars(ClientStep(c))

\* the transport of every connection a Client task still runs for is closed
RemainingTransportsClosed ==
    \A c \in Conns : client_pc[c] = "running" => ~remote_open[c]

\* C20: once the coordinator drains and the transport of every remaining
\* connection has closed or failed, every player still in the client map is
\* eventually removed and the coordinator exits
C20_DrainTerminates ==
    (srv_pc = "drain" /\ RemainingTransportsClosed) ~> (srv_pc = "done")

\* the coordinator leaves draining only with an empty client map
LeavesDrainEmpty ==
    [][(srv_pc = "drain" /\ srv_pc' # "drain") => n_connected(clients_tx') = 0]_vars

\* the step ends the Client task of c while its transport is closed and its
\* direct channel is still held, so that the task ends on its transport
EndsOnTransport(c) ==
    /\ ~ServerGone
    /\ client_pc[c] = "running"
    /\ client_pc'[c] = "ended"
    /\ ~remote_open[c]
    /\ SenderHeld(c) \/ server_rx[c] # <<>>

\* C21: a Client task whose transport reaches its end or fails, on read or
\* on write, sends one ClientMessage{player, Disconnect} to the coordinator
\* as it ends; it never ends without it while the coordinator is alive
C21_DisconnectOnTransportEnd ==
    [][\A c \in Conns :
         EndsOnTransport(c) =>
            clients_rx' = Append(clients_rx,
                                 [player |-> conn_player[c], request |-> "Disconnect",
                                  movement_index |-> 0, conn |-> c])]_vars

\* C22: no behaviour of a client makes the run of the coordinator end with
\* an error: the run ends with an error only when the setup timeout expires
C22_ClientsNeverEndRun ==
    [][(run_result = "none" /\ run_result' = "err") => srv_pc = "wait_players"]_vars

\* the setup timeout has expired with fewer than two players registered
SetupAborted == run_result = "err" /\ game = NoGame

\* the safety half of C23: the expiry of the setup timeout with fewer than
\* two players registered creates no Game, broadcasts Disconnect alone and
\* makes the result of the run an error; afterwards no Turn is dispatched,
\* nothing more is broadcast and the coordinator only drains
AbortSendsDisconnectOnly ==
    [][/\ (srv_pc = "wait_players" /\ srv_pc' \in {"drain", "done"})
            => /\ n_connected(clients_tx) < n_players
               /\ run_result' = "err"
               /\ game' = NoGame
               /\ broadcast_log' = <<[type |-> "disconnect"]>>
               /\ srv_pc' = "done" <=> n_connected(clients_tx) = 0
       /\ SetupAborted
            => /\ SetupAborted'
               /\ broadcast_log' = broadcast_log
               /\ \A c \in Conns : ~TurnDispatched(c)
               /\ srv_pc' \in {"drain", "done"}]_vars

\* C23: when the setup timeout expires with fewer than two players
\* registered, no Game is created, Disconnect is what the coordinator
\* broadcasts, and once the transport of every remaining connection has
\* closed or failed the registered clients are drained and the coordinator
\* ends with an error
C23_SetupTimeoutAborts ==
    (SetupAborted /\ RemainingTransportsClosed)
        ~> (srv_pc = "done" /\ run_result = "err" /\ n_connected(clients_tx) = 0)


(***************************************************************************)
(* The Game on its own (sternhalma/mod.rs): Game::new and the operations   *)
(* that apply movements, along two complete games and a bounded number of  *)
(* plies off them                                                          *)
(***************************************************************************)
\* plies a Game may leave the recorded games by
MaxStray == 1

\* a complete game from Game::new in which Player1 fills its goal
Player1Line ==
    <<<<<<13, 5>>, <<11, 7>>>>, <<<<3, 11>>, <<5, 11>>>>, <<<<15, 5>>, <<11, 5>>>>,
      <<<<1, 11>>, <<5, 9>>>>, <<<<13, 6>>, <<11, 6>>>>, <<<<3, 12>>, <<5, 10>>>>,
      <<<<15, 4>>, <<11, 8>>>>, <<<<1, 12>>, <<5, 12>>>>, <<<<12, 5>>, <<10, 7>>>>,
      <<<<3, 9>>, <<5, 7>>>>, <<<<12, 4>>, <<10, 8>>>>, <<<<3, 10>>, <<5, 6>>>>,
      <<<<14, 4>>, <<10, 6>>>>, <<<<4, 10>>, <<6, 10>>>>, <<<<11, 6>>, <<9, 6>>>>,
      <<<<4, 11>>, <<6, 11>>>>, <<<<12, 7>>, <<8, 7>>>>, <<<<4, 12>>, <<6, 12>>>>,
      <<<<11, 7>>, <<7, 7>>>>, <<<<4, 8>>, <<8, 6>>>>, <<<<13, 7>>, <<9, 5>>>>,
      <<<<5, 10>>, <<7, 10>>>>, <<<<8, 7>>, <<4, 7>>>>, <<<<6, 11>>, <<8, 9>>>>,
      <<<<11, 5>>, <<5, 13>>>>, <<<<5, 11>>, <<15, 5>>>>, <<<<9, 5>>, <<5, 11>>>>,
      <<<<7, 10>>, <<15, 4>>>>, <<<<11, 8>>, <<1, 12>>>>, <<<<5, 12>>, <<13, 6>>>>,
      <<<<9, 6>>, <<3, 10>>>>, <<<<5, 6>>, <<11, 6>>>>, <<<<16, 4>>, <<12, 4>>>>,
      <<<<2, 10>>, <<6, 8>>>>, <<<<14, 5>>, <<12, 7>>>>, <<<<2, 12>>, <<6, 6>>>>,
      <<<<13, 4>>, <<11, 4>>>>, <<<<0, 12>>, <<4, 8>>>>, <<<<12, 7>>, <<10, 5>>>>,
      <<<<4, 9>>, <<8, 5>>>>, <<<<11, 4>>, <<5, 6>>>>, <<<<5, 7>>, <<13, 7>>>>,
      <<<<7, 7>>, <<1, 11>>>>, <<<<5, 9>>, <<13, 5>>>>, <<<<5, 11>>, <<3, 9>>>>,
      <<<<2, 11>>, <<4, 9>>>>, <<<<10, 5>>, <<9, 6>>>>, <<<<8, 5>>, <<10, 5>>>>,
      <<<<9, 6>>, <<7, 6>>>>, <<<<4, 8>>, <<5, 7>>>>, <<<<12, 8>>, <<11, 8>>>>,
      <<<<5, 7>>, <<11, 5>>>>, <<<<11, 8>>, <<5, 10>>>>, <<<<10, 5>>, <<14, 5>>>>,
      <<<<14, 6>>, <<12, 8>>>>, <<<<11, 6>>, <<13, 4>>>>, <<<<12, 8>>, <<11, 8>>>>,
      <<<<4, 9>>, <<5, 9>>>>, <<<<11, 8>>, <<7, 10>>>>, <<<<5, 9>>, <<11, 7>>>>,
      <<<<12, 4>>, <<11, 4>>>>, <<<<6, 10>>, <<8, 10>>>>, <<<<12, 6>>, <<10, 4>>>>,
      <<<<6, 8>>, <<7, 8>>>>, <<<<11, 4>>, <<9, 6>>>>, <<<<6, 6>>, <<7, 5>>>>,
      <<<<10, 7>>, <<4, 11>>>>, <<<<7, 5>>, <<11, 3>>>>, <<<<5, 10>>, <<3, 12>>>>,
      <<<<7, 8>>, <<8, 7>>>>, <<<<9, 6>>, <<7, 8>>>>, <<<<8, 9>>, <<9, 8>>>>,
      <<<<10, 8>>, <<6, 8>>>>, <<<<8, 6>>, <<16, 4>>>>, <<<<10, 6>>, <<0, 12>>>>,
      <<<<8, 7>>, <<9, 7>>>>, <<<<7, 8>>, <<5, 8>>>>, <<<<6, 12>>, <<7, 12>>>>,
      <<<<6, 8>>, <<2, 12>>>>, <<<<7, 12>>, <<8, 11>>>>, <<<<7, 10>>, <<6, 10>>>>,
      <<<<8, 11>>, <<12, 7>>>>, <<<<10, 4>>, <<9, 5>>>>, <<<<9, 8>>, <<10, 8>>>>,
      <<<<9, 5>>, <<8, 5>>>>, <<<<10, 8>>, <<14, 6>>>>, <<<<8, 5>>, <<2, 11>>>>,
      <<<<9, 7>>, <<10, 7>>>>, <<<<6, 10>>, <<5, 10>>>>, <<<<8, 10>>, <<9, 9>>>>,
      <<<<7, 6>>, <<6, 6>>>>, <<<<9, 9>>, <<10, 8>>>>, <<<<6, 6>>, <<2, 10>>>>,
      <<<<10, 8>>, <<14, 4>>>>, <<<<4, 11>>, <<3, 11>>>>, <<<<11, 7>>, <<12, 6>>>>,
      <<<<5, 13>>, <<4, 13>>>>, <<<<11, 3>>, <<12, 2>>>>, <<<<5, 8>>, <<4, 8>>>>,
      <<<<11, 5>>, <<12, 4>>>>, <<<<5, 10>>, <<4, 10>>>>, <<<<10, 7>>, <<11, 6>>>>,
      <<<<5, 6>>, <<4, 6>>>>, <<<<11, 6>>, <<12, 5>>>>, <<<<4, 8>>, <<4, 9>>>>,
      <<<<12, 2>>, <<12, 3>>>>, <<<<4, 13>>, <<4, 12>>>>, <<<<12, 3>>, <<12, 2>>>>,
      <<<<4, 9>>, <<4, 11>>>>, <<<<12, 7>>, <<12, 8>>>>, <<<<4, 6>>, <<4, 8>>>>,
      <<<<12, 2>>, <<12, 1>>>>, <<<<4, 7>>, <<4, 9>>>>>>

\* a complete game from Game::new in which Player2 fills its goal
Player2Line ==
    <<<<<<13, 7>>, <<11, 7>>>>, <<<<3, 11>>, <<5, 9>>>>, <<<<15, 5>>, <<11, 9>>>>,
      <<<<1, 11>>, <<5, 11>>>>, <<<<13, 4>>, <<11, 10>>>>, <<<<3, 9>>, <<5, 7>>>>,
      <<<<15, 4>>, <<11, 4>>>>, <<<<4, 9>>, <<6, 9>>>>, <<<<13, 5>>, <<11, 3>>>>,
      <<<<2, 11>>, <<6, 7>>>>, <<<<12, 7>>, <<10, 7>>>>, <<<<3, 10>>, <<7, 8>>>>,
      <<<<14, 5>>, <<10, 11>>>>, <<<<3, 12>>, <<7, 6>>>>, <<<<13, 6>>, <<9, 8>>>>,
      <<<<4, 12>>, <<10, 6>>>>, <<<<12, 6>>, <<4, 12>>>>, <<<<4, 8>>, <<12, 6>>>>,
      <<<<12, 8>>, <<10, 10>>>>, <<<<4, 10>>, <<10, 8>>>>, <<<<11, 9>>, <<9, 11>>>>,
      <<<<1, 12>>, <<5, 6>>>>, <<<<11, 3>>, <<9, 9>>>>, <<<<5, 7>>, <<7, 7>>>>,
      <<<<12, 5>>, <<10, 5>>>>, <<<<6, 7>>, <<8, 5>>>>, <<<<11, 7>>, <<7, 5>>>>,
      <<<<6, 9>>, <<8, 7>>>>, <<<<12, 4>>, <<10, 4>>>>, <<<<7, 8>>, <<13, 6>>>>,
      <<<<11, 4>>, <<7, 8>>>>, <<<<7, 7>>, <<15, 5>>>>, <<<<10, 11>>, <<8, 11>>>>,
      <<<<7, 6>>, <<11, 6>>>>, <<<<11, 10>>, <<7, 12>>>>, <<<<4, 11>>, <<6, 11>>>>,
      <<<<10, 10>>, <<6, 10>>>>, <<<<5, 11>>, <<13, 7>>>>, <<<<9, 9>>, <<5, 11>>>>,
      <<<<2, 10>>, <<3, 10>>>>, <<<<14, 6>>, <<12, 8>>>>, <<<<12, 6>>, <<14, 6>>>>,
      <<<<8, 11>>, <<6, 13>>>>, <<<<10, 6>>, <<12, 6>>>>, <<<<7, 12>>, <<5, 14>>>>,
      <<<<3, 10>>, <<4, 9>>>>, <<<<10, 7>>, <<8, 9>>>>, <<<<4, 9>>, <<6, 9>>>>,
      <<<<9, 8>>, <<1, 12>>>>, <<<<5, 9>>, <<13, 5>>>>, <<<<7, 8>>, <<3, 12>>>>,
      <<<<6, 9>>, <<7, 8>>>>, <<<<6, 13>>, <<4, 15>>>>, <<<<7, 8>>, <<11, 4>>>>,
      <<<<16, 4>>, <<15, 4>>>>, <<<<5, 6>>, <<6, 5>>>>, <<<<15, 4>>, <<13, 4>>>>,
      <<<<14, 6>>, <<16, 4>>>>, <<<<14, 4>>, <<12, 4>>>>, <<<<12, 6>>, <<14, 4>>>>,
      <<<<12, 8>>, <<10, 6>>>>, <<<<2, 12>>, <<3, 11>>>>, <<<<7, 5>>, <<5, 5>>>>,
      <<<<0, 12>>, <<4, 10>>>>, <<<<4, 12>>, <<0, 12>>>>, <<<<3, 11>>, <<5, 9>>>>,
      <<<<6, 10>>, <<2, 12>>>>, <<<<4, 10>>, <<6, 8>>>>, <<<<10, 5>>, <<9, 5>>>>,
      <<<<5, 9>>, <<11, 5>>>>, <<<<10, 4>>, <<8, 8>>>>, <<<<8, 5>>, <<14, 5>>>>,
      <<<<12, 4>>, <<8, 6>>>>, <<<<8, 7>>, <<12, 3>>>>, <<<<9, 5>>, <<5, 9>>>>,
      <<<<13, 6>>, <<15, 4>>>>, <<<<8, 6>>, <<7, 7>>>>, <<<<6, 8>>, <<8, 6>>>>,
      <<<<8, 9>>, <<6, 7>>>>, <<<<6, 5>>, <<7, 5>>>>, <<<<13, 4>>, <<12, 4>>>>,
      <<<<11, 4>>, <<13, 6>>>>, <<<<6, 7>>, <<4, 5>>>>, <<<<11, 6>>, <<13, 4>>>>,
      <<<<10, 6>>, <<9, 7>>>>, <<<<7, 5>>, <<8, 5>>>>, <<<<12, 4>>, <<10, 6>>>>,
      <<<<8, 5>>, <<12, 5>>>>, <<<<9, 7>>, <<7, 9>>>>, <<<<6, 11>>, <<7, 10>>>>,
      <<<<8, 8>>, <<4, 12>>>>, <<<<7, 10>>, <<11, 6>>>>, <<<<10, 6>>, <<9, 6>>>>,
      <<<<8, 6>>, <<14, 6>>>>, <<<<9, 11>>, <<8, 12>>>>, <<<<10, 8>>, <<11, 8>>>>,
      <<<<7, 7>>, <<6, 7>>>>, <<<<11, 8>>, <<12, 8>>>>, <<<<9, 6>>, <<8, 6>>>>,
      <<<<11, 5>>, <<12, 4>>>>, <<<<8, 12>>, <<7, 12>>>>, <<<<11, 6>>, <<12, 6>>>>,
      <<<<8, 6>>, <<7, 6>>>>, <<<<12, 5>>, <<12, 7>>>>, <<<<7, 6>>, <<5, 10>>>>,
      <<<<12, 3>>, <<12, 5>>>>>>

ScriptedLines == {Player1Line, Player2Line}

IsPrefix(h, line) == Len(h) <= Len(line) /\ SubSeq(line, 1, Len(h)) = h

\* the number of movements at the end of the history that belong to no
\* recorded game
RECURSIVE StraysFrom(_, _)
StraysFrom(h, n) ==
    IF \E line \in ScriptedLines : IsPrefix(SubSeq(h, 1, Len(h) - n), line)
    THEN n
    ELSE StraysFrom(h, n + 1)

Strays(g) == StraysFrom(g.history, 0)

\* the empty valid cells, in storage order
EmptyCells(board) == SelectSeq(ScanOrder, LAMBDA idx : board[FlatIndex(idx)] = Empty)

OutsideIdx == <<0, 0>>

\* the MovementFull values apply_movement is called with: movements the
\* generator lists for the player to move and for the other one, and
\* movements from an empty cell, onto a piece, from or to an index outside
\* the board, an empty path, a path that ends where it starts, and a move
\* between two cells far apart
FullCandidates(g) ==
    LET p == IF g.status.player = NoPlayer THEN Player1 ELSE g.status.player
        own == iter_player_movements(g.board, p)
        other == iter_player_movements(g.board, opponent(p))
        pieces == iter_player_indices(g.board, p)
        empties == EmptyCells(g.board)
    IN {own[k] : k \in {1, Len(own)} \cap DOMAIN own}
       \cup {other[k] : k \in {1} \cap DOMAIN other}
       \cup {Move(empties[1], empties[2]),
             Move(pieces[1], pieces[2]),
             Move(OutsideIdx, empties[1]),
             Move(pieces[1], OutsideIdx),
             Hops(<<>>),
             Hops(<<pieces[1], empties[1], pieces[2]>>),
             Hops(<<pieces[1]>>),
             Move(pieces[1], empties[Len(empties)])}

\* the operation last called on the Game and what it returned
GameCall(name, ret, before) ==
    [type |-> name, player |-> before.status.player, conn |-> NoConn, outcome |-> ret,
     prev |-> before.status.kind]

InitGame ==
    /\ srv_pc = "game_loop"
    /\ run_result = "none"
    /\ clients_tx = [p \in Players |-> NoConn]
    /\ sessions = [sid \in Conns |-> NoPlayer]
    /\ disconnected = {}
    /\ main_rx = <<>>
    /\ clients_rx = <<>>
    /\ broadcast_log = <<>>
    /\ game = NewGame
    /\ current_player = NoPlayer
    /\ movements = <<>>
    /\ hs_pc = [c \in Conns |-> "start"]
    /\ hs_kind = [c \in Conns |-> "none"]
    /\ resp = [c \in Conns |-> NoReply]
    /\ client_pc = [c \in Conns |-> "none"]
    /\ conn_player = [c \in Conns |-> NoPlayer]
    /\ conn_sid = [c \in Conns |-> NilSession]
    /\ remote_open = [c \in Conns |-> TRUE]
    /\ server_rx = [c \in Conns |-> <<>>]
    /\ bcast_pos = [c \in Conns |-> 0]
    /\ remote_out = [c \in Conns |-> <<>>]
    /\ turn_sent = {}
    /\ last_request = NoRequest
    /\ n_sends = 0
    /\ n_closes = 0
    /\ closed_before = [c \in Conns |-> {}]
    /\ welcomed_before = [c \in Conns |-> {}]

game_unchanged ==
    UNCHANGED <<srv_pc, run_result, clients_tx, sessions, disconnected, main_rx,
                clients_rx, broadcast_log, current_player, movements, conn_vars,
                turn_sent, env_vars>>

\* apply_movement_unchecked with the next movement of a recorded game,
\* which the generator lists in this state
GameApplyScripted ==
    \E line \in ScriptedLines :
        /\ game.status.kind = "Playing"
        /\ IsPrefix(game.history, line)
        /\ Len(game.history) < Len(line)
        /\ Contains(available_movements(game), line[Len(game.history) + 1])
        /\ game' = apply_movement_unchecked(game, line[Len(game.history) + 1])
        /\ last_request' = GameCall("apply_movement_unchecked", "Ok", game)
        /\ game_unchanged

\* apply_movement_unchecked with the movement a Choice index selects from
\* the list of the turn
GameApplyChoice(i) ==
    /\ game.status.kind = "Playing"
    /\ Strays(game) < MaxStray
    /\ \E list \in {available_movements(game)} :
          /\ list # <<>>
          /\ game' = apply_movement_unchecked(game,
                        list[IF i = 0 THEN 1 ELSE 1 + ((Len(list) - 1) * i) \div MaxChoice])
    /\ last_request' = GameCall("apply_movement_unchecked", "Ok", game)
    /\ game_unchanged

\* apply_movement(movement) is called and returns
ApplyMovementCall(movement) ==
    LET applied == apply_movement(game, movement)
    IN /\ game' = applied.game
       /\ last_request' = GameCall("apply_movement", applied.ret, game)

\* apply_movement, in any status
GameApplyMovement ==
    /\ Strays(game) < MaxStray
    /\ \E movement \in FullCandidates(game) : ApplyMovementCall(movement)
    /\ game_unchanged

\* apply_movement_unchecked on a Game that is Finished, with a movement the
\* board allows
GameApplyUncheckedFinished ==
    /\ game.status.kind = "Finished"
    /\ Strays(game) < MaxStray
    /\ \E movement \in FullCandidates(game) :
          /\ validate_movement(game.board, movement) = "Ok"
          /\ game' = apply_movement_unchecked(game, get_indices(movement))
    /\ last_request' = GameCall("apply_movement_unchecked", "Ok", game)
    /\ game_unchanged

NextGame ==
    \/ GameApplyScripted
    \/ \E i \in 0..MaxChoice : GameApplyChoice(i)
    \/ GameApplyMovement
    \/ GameApplyUncheckedFinished

SpecGame == InitGame /\ [][NextGame]_vars

(***************************************************************************)
(* Properties of the Game                                                  *)
(***************************************************************************)
\* a movement was applied in the step
MoveApplied == game'.history # game.history

Occupied(board, player) == {k \in BoardCells : board[k] = player}

\* C24: in every state reached from Game::new by applied movements each
\* player occupies exactly 15 cells, and the cells that are positions of the
\* board are the valid positions and no others, so every piece stands on a
\* valid cell and the set of valid cells is the one of Board::empty
C24_OccupancyInvariant ==
    /\ \A p \in Players : Cardinality(Occupied(game.board, p)) = 15
    /\ \A k \in BoardCells : game.board[k] # Outside <=> HexIdxOf(k) \in VALID_POSITIONS

\* a complete game was played and a movement was applied after it
C24_Witness ==
    /\ game.status.kind = "Finished"
    /\ Len(game.history) > Len(Player2Line)
    /\ game.board # NewBoard

\* the stored scores of g are the counts Board::score finds on its board
ScoresMatchBoard(g) ==
    \A p \in Players :
        /\ g.status.scores[PlayerIndex(p)] = score(g.board, p)
        /\ g.status.scores[PlayerIndex(p)] \in 0..15

\* C25: after every applied movement the stored score of each player is the
\* number of its pieces on its goal positions, and lies in 0..15
C25_ScoreLaw == ScoresMatchBoard(game)

\* the same for the movements applied while the Game is Playing
ScoreLawWhilePlaying ==
    [][(MoveApplied /\ game.status.kind = "Playing") => ScoresMatchBoard(game')]_vars

\* player holds all its goal positions
GoalFull(g, player) == \A idx \in goal_indices(player) : g.board[FlatIndex(idx)] = player

\* the status of g names player the winner exactly if player holds all its
\* goal positions, which is when its score is 15, and is Playing otherwise
WinnerMatchesBoard(g) ==
    /\ g.status.kind \in {"Playing", "Finished"}
    /\ \A p \in Players :
        /\ (g.status.kind = "Finished" /\ g.status.player = p) <=> GoalFull(g, p)
        /\ GoalFull(g, p) <=> g.status.scores[PlayerIndex(p)] = 15

\* C26: after any applied movement the status is Finished with winner p
\* exactly if p holds all 15 of its goal positions (its score is 15), the
\* winner is the player whose turn the movement was applied in, and the
\* status is Playing otherwise
C26_WinnerLaw ==
    [][MoveApplied =>
        /\ WinnerMatchesBoard(game')
        /\ game'.status.kind = "Finished" => game'.status.player = game.status.player]_vars

\* the same for the movements applied while the Game is Playing
WinnerLawWhilePlaying ==
    [][(MoveApplied /\ game.status.kind = "Playing") =>
        /\ WinnerMatchesBoard(game')
        /\ game'.status.kind = "Finished" => game'.status.player = game.status.player]_vars

\* one movement more in the history and one turn more, and the turn with
\* the other player unless the Game is Finished
CountsOneMove(g, h) ==
    /\ h.status.turns = g.status.turns + 1
    /\ Len(h.history) = Len(g.history) + 1
    /\ SubSeq(h.history, 1, Len(g.history)) = g.history
    /\ Len(Last(h.history)) = 2
    /\ Len(h.history) = h.status.turns
    /\ h.status.kind = "Playing" => h.status.player = opponent(g.status.player)

\* C27: the Game starts as Playing{Player1, 0, [0, 0]} with an empty history;
\* each applied movement adds 1 to turns and one [from, to] entry to the
\* history, so that len(history) = turns throughout, and passes the turn to
\* the other player unless it wins
C27_TurnsCountMoves ==
    /\ game.status = Playing(Player1, 0, <<0, 0>>) /\ game.history = <<>>
    /\ [][MoveApplied => CountsOneMove(game, game')]_vars

\* the same for the movements applied while the Game is Playing
TurnsCountMovesWhilePlaying ==
    [][(MoveApplied /\ game.status.kind = "Playing") => CountsOneMove(game, game')]_vars

\* the step is a call of apply_movement on a Finished Game
ApplyMovementOnFinished ==
    /\ game.status.kind = "Finished"
    /\ last_request'.type = "apply_movement"
    /\ last_request'.prev = "Finished"

\* C28: once the status is Finished no operation changes the board, the
\* history or the status: apply_movement returns GameFinished, and every
\* other way to apply a movement leaves the whole Game as it is
C28_FinishedIsTerminal ==
    [][game.status.kind = "Finished" =>
        /\ game' = game
        /\ ApplyMovementOnFinished => last_request'.outcome = "GameFinished"]_vars

\* apply_movement refuses on a Finished Game and leaves it as it is
ApplyMovementRefusesFinished ==
    [][ApplyMovementOnFinished =>
        (game' = game /\ last_request'.outcome = "GameFinished")]_vars

\* next_status keeps a Finished status whatever is applied
FinishedStatusKept ==
    [][game.status.kind = "Finished" => game'.status = game.status]_vars

\* apply_movement was called on a Finished Game
ApplyMovementOnFinishedSeen ==
    /\ game.status.kind = "Finished"
    /\ last_request.type = "apply_movement"
    /\ last_request.prev = "Finished"

(***************************************************************************)
(* The rules of movement, written without the generator's neighbour        *)
(* lookup: the six unit vectors of the lattice and the valid positions     *)
(***************************************************************************)
DirVectors == {<<-1, 0>>, <<-1, 1>>, <<0, -1>>, <<0, 1>>, <<1, -1>>, <<1, 0>>}

Shift(idx, d, n) == <<idx[1] + n * d[1], idx[2] + n * d[2]>>

IsValidEmpty(board, idx) == idx \in VALID_POSITIONS /\ board[FlatIndex(idx)] = Empty

IsOccupied(board, idx) == idx \in VALID_POSITIONS /\ board[FlatIndex(idx)] \in Players

\* b is next to a
Adjacent(a, b) == \E d \in DirVectors : b = Shift(a, d, 1)

\* from a, a straight line over an occupied neighbour onto the valid empty
\* cell b
LegalHop(board, a, b) ==
    \E d \in DirVectors :
        /\ b = Shift(a, d, 2)
        /\ IsOccupied(board, Shift(a, d, 1))
        /\ IsValidEmpty(board, b)

SoundMovement(board, player, movement) ==
    LET path == movement.path
    IN /\ Len(path) >= 2
       /\ path[1] \in VALID_POSITIONS
       /\ board[FlatIndex(path[1])] = player
       /\ IsValidEmpty(board, Last(path))
       /\ movement.kind = "Move" => (Len(path) = 2 /\ Adjacent(path[1], path[2]))
       /\ movement.kind = "Hops" =>
            \A k \in 1..(Len(path) - 1) : LegalHop(board, path[k], path[k + 1])

\* C29: on every board reached and for either player, every movement the
\* generator emits starts on a piece of that player and ends on a valid
\* empty cell; a Move goes to an adjacent cell, and every consecutive pair
\* of a Hops path is a hop in a straight line over an occupied neighbour
\* onto a valid empty cell
C29_GeneratorSound ==
    \A p \in Players :
        \E emitted \in {iter_player_movements(game.board, p)} :
            \A k \in 1..Len(emitted) : SoundMovement(game.board, p, emitted[k])

\* the generator emits a Move and a chain of three hops on this board
C29_Witness ==
    /\ Len(game.history) > 0
    /\ game.status.kind = "Playing"
    /\ \E emitted \in {iter_available_moves(game)} :
          /\ \E k \in 1..Len(emitted) :
                emitted[k].kind = "Hops" /\ Len(emitted[k].path) >= 4
          /\ \E k \in 1..Len(emitted) : emitted[k].kind = "Move"

\* the paths that extend a path of paths by one legal hop to a cell not yet
\* on the path, and all their extensions
RECURSIVE ChainsBeyond(_, _)
ChainsBeyond(board, paths) ==
    LET longer == UNION {{Append(path, Shift(Last(path), d, 2)) : d \in
                            {d \in DirVectors :
                                /\ LegalHop(board, Last(path), Shift(Last(path), d, 2))
                                /\ ~Contains(path, Shift(Last(path), d, 2))}} :
                         path \in paths}
    IN IF longer = {} THEN {} ELSE longer \cup ChainsBeyond(board, longer)

\* every sequence of legal hops from idx in which no cell appears twice
AcyclicChains(board, idx) == ChainsBeyond(board, {<<idx>>})

EmittedFrom(board, idx) ==
    LET emitted == available_movements_from(board, idx)
    IN {emitted[k] : k \in 1..Len(emitted)}

CompleteFrom(board, idx) ==
    \E emitted \in {EmittedFrom(board, idx)} :
        /\ \A d \in DirVectors :
              IsValidEmpty(board, Shift(idx, d, 1)) => Move(idx, Shift(idx, d, 1)) \in emitted
        /\ \A path \in AcyclicChains(board, idx) : Hops(path) \in emitted

\* C30: for every cell held by the player to move the generator emits a
\* Move for every direction whose neighbour is a valid empty cell and a
\* Hops path for every sequence of legal hops from that cell in which no
\* cell appears twice; the enumeration ends on every board reached
C30_GeneratorComplete ==
    \A k \in Occupied(game.board, game.status.player) : CompleteFrom(game.board, HexIdxOf(k))

\* a piece of the player to move has a chain of three hops and a free
\* neighbour
C30_Witness ==
    /\ game.status.kind = "Playing"
    /\ Len(game.history) > 0
    /\ \E k \in Occupied(game.board, game.status.player) :
          /\ \E path \in AcyclicChains(game.board, HexIdxOf(k)) : Len(path) >= 4
          /\ \E d \in DirVectors : IsValidEmpty(game.board, Shift(HexIdxOf(k), d, 1))

\* the cells a path jumps over: for each consecutive pair two cells apart
\* in a line, the cell between them
JumpedOver(path) ==
    {Shift(path[h], d, 1) : <<h, d>> \in
        {hd \in (1..(Len(path) - 1)) \X DirVectors :
            path[hd[1] + 1] = Shift(path[hd[1]], hd[2], 2)}}

\* C39: no generated hop chain jumps over the origin cell of the moving
\* piece: in every emitted chain the cell hopped over in each hop holds a
\* piece other than the one being moved
C39_NeverOverOwnOrigin ==
    \A p \in Players :
        \E emitted \in {iter_player_movements(game.board, p)} :
            \A k \in 1..Len(emitted) :
                emitted[k].kind = "Hops" =>
                    \A mid \in JumpedOver(emitted[k].path) :
                        /\ mid # emitted[k].path[1]
                        /\ IsOccupied(game.board, mid)

\* the generator emits a chain that jumps over a piece of the mover's own
\* colour and comes back to within one hop of its origin: a later cell of
\* the path is two cells from the origin in a line
C39_Witness ==
    /\ game.status.kind = "Playing"
    /\ \E emitted \in {iter_available_moves(game)} :
          \E k \in 1..Len(emitted) :
              /\ emitted[k].kind = "Hops"
              /\ \E h \in 3..Len(emitted[k].path) : \E d \in DirVectors :
                    emitted[k].path[h] = Shift(emitted[k].path[1], d, 2)
              /\ \E mid \in JumpedOver(emitted[k].path) :
                    game.board[FlatIndex(mid)] = game.status.player

(***************************************************************************)
(* The list of a turn and the broadcasts of the play phase                 *)
(***************************************************************************)
SeqRange(seq) == {seq[k] : k \in 1..Len(seq)}

NoTwoEqual(seq) == \A i, j \in 1..Len(seq) : i # j => seq[i] # seq[j]

\* C31: the list handle_turn builds for a Turn has no two entries with the
\* same [from, to], and its entries are exactly the endpoint pairs of the
\* movements generated for the current player
C31_EndpointsUnique ==
    game.status.kind = "Playing" =>
        \E list \in {available_movements(game)} :
            \E full \in {iter_available_moves(game)} :
                /\ NoTwoEqual(list)
                /\ SeqRange(list) = {get_indices(full[k]) : k \in 1..Len(full)}

\* two of the generated movements end where they started alike, so that the
\* list is shorter than what the generator emits
C31_Witness ==
    /\ game.status.kind = "Playing"
    /\ Len(game.history) > 0
    /\ \E full \in {iter_available_moves(game)} :
          /\ \E i, j \in 1..Len(full) : i # j /\ get_indices(full[i]) = get_indices(full[j])
          /\ Len(available_movements(game)) < Len(full)

MaxFrames == 3

\* REMOTE_MESSAGE_LENGTH
REMOTE_MESSAGE_LENGTH == 4 * 1024

\* the max_frame_length of LengthDelimitedCodec::new(), which ServerCodec::new
\* leaves as the codec sets it
DefaultMaxFrameLength == 8 * 1024 * 1024

\* a frame: the announced length and what its payload bytes deserialize to,
\* "None" when they are no RemoteInMessage.  A payload longer than the
\* message it holds carries a field the message type does not read
Frame(len, payload, movement_index) ==
    [len |-> len, payload |-> payload, movement_index |-> movement_index]

SampleFrames ==
    {Frame(0, "None", 0),
     Frame(2, "None", 0),
     Frame(REMOTE_MESSAGE_LENGTH + 1, "None", 0),
     Frame(DefaultMaxFrameLength + 1, "Choice", 0),
     Frame(DefaultMaxFrameLength, "Choice", 0),
     Frame(REMOTE_MESSAGE_LENGTH + 1, "Choice", 0),
     Frame(REMOTE_MESSAGE_LENGTH + 1, "Hello", 0),
     Frame(REMOTE_MESSAGE_LENGTH, "Choice", 1),
     Frame(40, "Choice", 0),
     Frame(16, "Hello", 0)}

DecodeError == [type |-> "Err", movement_index |-> 0]

\* ServerCodec::decode on a complete frame: the delegate refuses a length
\* above its max_frame_length, then ciborium reads the payload
ServerCodec_decode(frame) ==
    IF frame.len > DefaultMaxFrameLength THEN DecodeError
    ELSE IF frame.payload = "None" THEN DecodeError
    ELSE [type |-> frame.payload, movement_index |-> frame.movement_index]

InitCodec ==
    /\ srv_pc = "game_loop"
    /\ run_result = "none"
    /\ clients_tx = [Player1 |-> 1, Player2 |-> 2]
    /\ sessions = [sid \in Conns |-> IF sid = 1 THEN Player1
                                     ELSE IF sid = 2 THEN Player2 ELSE NoPlayer]
    /\ disconnected = {}
    /\ main_rx = <<>>
    /\ clients_rx = <<>>
    /\ broadcast_log = <<>>
    /\ game = NewGame
    /\ current_player = NoPlayer
    /\ movements = <<>>
    /\ hs_pc = [c \in Conns |-> IF c \in {1, 2} THEN "done" ELSE "start"]
    /\ hs_kind = [c \in Conns |-> IF c \in {1, 2} THEN "hello" ELSE "none"]
    /\ resp = [c \in Conns |-> NoReply]
    /\ client_pc = [c \in Conns |-> IF c \in {1, 2} THEN "running" ELSE "none"]
    /\ conn_player = [c \in Conns |-> IF c = 1 THEN Player1
                                      ELSE IF c = 2 THEN Player2 ELSE NoPlayer]
    /\ conn_sid = [c \in Conns |-> IF c \in {1, 2} THEN NewSessionId(c) ELSE NilSession]
    /\ remote_open = [c \in Conns |-> TRUE]
    /\ server_rx = [c \in Conns |-> <<>>]
    /\ bcast_pos = [c \in Conns |-> 0]
    /\ remote_out = [c \in Conns |-> IF c \in {1, 2} THEN <<Welcome(NewSessionId(c))>> ELSE <<>>]
    /\ turn_sent = {}
    /\ last_request = NoRequest
    /\ n_sends = 0
    /\ n_closes = 0
    /\ closed_before = [c \in Conns |-> {}]
    /\ welcomed_before = [c \in Conns |-> {}]

\* Client::run, stream branch, on the next frame of the transport: a decoded
\* Choice is forwarded and any other message dropped; after a decoding error
\* the loop continues, the stream that has returned an error ends, and run
\* breaks and sends the Disconnect request
RemoteFrame(c, frame) ==
    /\ n_sends < MaxFrames
    /\ client_pc[c] = "running"
    /\ remote_open[c]
    /\ n_sends' = n_sends + 1
    /\ LET message == ServerCodec_decode(frame)
       IN IF message = DecodeError
          THEN /\ client_pc' = [client_pc EXCEPT ![c] = "ended"]
               /\ clients_rx' = Append(clients_rx,
                                       ClientMessage(conn_player[c], "Disconnect", 0, c))
          ELSE /\ clients_rx' = IF message.type = "Choice"
                                THEN Append(clients_rx,
                                            ClientMessage(conn_player[c], "Choice",
                                                          message.movement_index, c))
                                ELSE clients_rx
               /\ UNCHANGED client_pc
    /\ UNCHANGED <<srv_pc, run_result, clients_tx, sessions, disconnected, main_rx,
                   broadcast_log, game, current_player, movements, hs_pc, hs_kind, resp,
                   conn_player, conn_sid, remote_open, server_rx, bcast_pos, remote_out,
                   turn_sent, last_request, n_closes, closed_before, welcomed_before>>

\* handle_handshake on the first frame of the transport: Hello asks for a
\* free player; a decoding error and any other message end the task, which
\* drops the transport
HandshakeFrame(c, frame) ==
    /\ n_sends < MaxFrames
    /\ hs_pc[c] = "start"
    /\ remote_open[c]
    /\ n_sends' = n_sends + 1
    /\ LET message == ServerCodec_decode(frame)
       IN IF message.type = "Hello"
          THEN /\ hs_kind' = [hs_kind EXCEPT ![c] = "hello"]
               /\ hs_pc' = [hs_pc EXCEPT ![c] = "wait_free"]
               /\ main_rx' = Append(main_rx, RequestFreePlayer(c))
          ELSE /\ hs_pc' = [hs_pc EXCEPT ![c] = "done"]
               /\ UNCHANGED <<hs_kind, main_rx>>
    /\ UNCHANGED <<srv_pc, run_result, clients_tx, sessions, disconnected, clients_rx,
                   broadcast_log, game, current_player, movements, resp, client_pc,
                   conn_player, conn_sid, remote_open, server_rx, bcast_pos, remote_out,
                   turn_sent, last_request, n_closes, closed_before, welcomed_before>>

NextCodec ==
    \/ \E c \in Conns : \E frame \in SampleFrames : RemoteFrame(c, frame)
    \/ \E c \in Conns : \E frame \in SampleFrames : HandshakeFrame(c, frame)

SpecCodec == InitCodec /\ [][NextCodec]_vars

\* the step rejects the frame and closes: nothing goes to the coordinator
\* but the Disconnect request of the task that ends, and no task reads the
\* transport of c any longer
RejectsAndCloses(c) ==
    /\ main_rx' = main_rx
    /\ \A k \in (Len(clients_rx) + 1)..Len(clients_rx') : clients_rx'[k].request = "Disconnect"
    /\ client_pc'[c] # "running"
    /\ hs_pc'[c] = "done"

FrameArrives(c, frame) == RemoteFrame(c, frame) \/ HandshakeFrame(c, frame)

\* C33: a frame that announces a length of 0 or above 4096 is rejected and
\* the connection closed: no message of it is decoded or forwarded to the
\* coordinator, and the task stops reading the transport
C33_BadLengthRejected ==
    [][\A c \in Conns : \A frame \in SampleFrames :
        (FrameArrives(c, frame) /\ (frame.len = 0 \/ frame.len > REMOTE_MESSAGE_LENGTH))
            => RejectsAndCloses(c)]_vars

\* the same for the lengths the codec itself refuses, and for payloads that
\* are no message
UndecodableRejected ==
    [][\A c \in Conns : \A frame \in SampleFrames :
        (FrameArrives(c, frame)
            /\ (frame.len = 0 \/ frame.len > DefaultMaxFrameLength \/ frame.payload = "None"))
            => RejectsAndCloses(c)]_vars

(***************************************************************************)
(* Validation of movements supplied from outside                           *)
(***************************************************************************)
\* what the claim expects of apply_movement(movement) on a Playing Game g
\* that returns ret and leaves h
RefusesAsSpecified(g, movement, ret, h) ==
    LET valid == validate_movement(g.board, movement)
        mine == g.board[FlatIndex(movement.path[1])] = g.status.player
    IN /\ valid # "Ok" => ret = valid
       /\ (valid = "Ok" /\ ~mine) => ret = "OutOfTurn"
       /\ (valid = "Ok" /\ mine) => (ret = "Ok" /\ h.history = Append(g.history, get_indices(movement)))
       /\ ret # "Ok" => h = g

\* C34: apply_movement on a Playing Game returns OutOfTurn when the piece at
\* the origin is not the current player's, and the error of the validation
\* when the validation fails; whenever it returns an error the board, the
\* status and the history are as before
C34_ApplyMovementErrors ==
    [][(game.status.kind = "Playing" /\ last_request'.type = "apply_movement"
            /\ Strays(game) < MaxStray)
        => \A movement \in FullCandidates(game) :
              ApplyMovementCall(movement) =>
                  RefusesAsSpecified(game, movement, last_request'.outcome, game')]_vars

\* apply_movement has refused a piece of the other player on a Playing Game
C34_Witness ==
    /\ game.status.kind = "Playing"
    /\ Len(game.history) > 0
    /\ last_request.type = "apply_movement"
    /\ last_request.prev = "Playing"
    /\ last_request.outcome = "OutOfTurn"

\* the errors of the validation that apply_movement has returned
ValidationErrorSeen(error) ==
    /\ last_request.type = "apply_movement"
    /\ last_request.prev = "Playing"
    /\ last_request.outcome = error

\* the movement is legal on the board: an occupied start, a Move to an
\* adjacent valid empty cell, or a chain of at least 2 indices whose
\* consecutive pairs are single hops
LegalMovement(board, movement) ==
    LET path == movement.path
    IN /\ Len(path) >= 2
       /\ IsOccupied(board, path[1])
       /\ IsValidEmpty(board, Last(path))
       /\ movement.kind = "Move" => Adjacent(path[1], path[2])
       /\ movement.kind = "Hops" =>
            \A k \in 1..(Len(path) - 1) : LegalHop(board, path[k], path[k + 1])

\* C35: validate_movement accepts a movement supplied from outside exactly
\* when it is legal: start occupied, end valid and empty, a Move to an adjacent
\* cell, a chain of at least 2 indices each consecutive pair of which is one
\* legal hop; every other movement is rejected with an error
C35_ValidateExactlyLegal ==
    game.status.kind = "Playing" =>
        \A movement \in FullCandidates(game) :
            validate_movement(game.board, movement) = "Ok"
                <=> LegalMovement(game.board, movement)

\* every legal movement is accepted, and a movement is rejected when its
\* start is invalid or empty or a later cell of its path is invalid or
\* occupied
LegalMovementsAccepted ==
    game.status.kind = "Playing" =>
        \A movement \in FullCandidates(game) :
            LET path == movement.path
                valid == validate_movement(game.board, movement)
            IN /\ LegalMovement(game.board, movement) => valid = "Ok"
               /\ (Len(path) = 0 \/ ~IsOccupied(game.board, path[1])) => valid # "Ok"
               /\ (\E k \in 2..Len(path) : ~IsValidEmpty(game.board, path[k])) => valid # "Ok"

(***************************************************************************)
(* The end of a game on the server: both players are connected and have    *)
(* played a recorded game that Player1 wins up to its last two plies, and  *)
(* max_turns is the number of plies of that game                           *)
(***************************************************************************)
EndgameLine == Player1Line

\* the max_turns argument of Server::try_run in these runs
EndgameMaxTurns == Len(EndgameLine)

\* the plies already played
EndgamePlayed == Len(EndgameLine) - 2

\* the Games after each movement of seq applied to g in turn
RECURSIVE GamesFrom(_, _)
GamesFrom(g, seq) ==
    IF seq = <<>> THEN <<>>
    ELSE IF Len(seq) = 1 THEN <<apply_movement_unchecked(g, seq[1])>>
    ELSE LET half == Len(seq) \div 2
             front == GamesFrom(g, SubSeq(seq, 1, half))
         IN front \o GamesFrom(Last(front), SubSeq(seq, half + 1, Len(seq)))

\* EndgameGames[k] is the Game in which ply k is played
EndgameGames == <<NewGame>> \o GamesFrom(NewGame, SubSeq(EndgameLine, 1, EndgamePlayed))

\* the Movement broadcast of ply k
EndgameMovement(k) ==
    Movement(EndgameGames[k].status.player, EndgameLine[k],
             EndgameGames[k + 1].status.scores)

RECURSIVE Concat(_)
Concat(seqs) ==
    IF seqs = <<>> THEN <<>>
    ELSE IF Len(seqs) = 1 THEN seqs[1]
    ELSE LET half == Len(seqs) \div 2
         IN Concat(SubSeq(seqs, 1, half)) \o Concat(SubSeq(seqs, half + 1, Len(seqs)))

\* what the Client task of player has written for the plies played: its
\* Turns and every Movement
EndgameWritten(player) ==
    Concat([k \in 1..EndgamePlayed |->
              (IF EndgameGames[k].status.player = player
               THEN <<handle_server_message(player, Turn(available_movements(EndgameGames[k])))>>
               ELSE <<>>)
              \o <<handle_server_broadcast(player, EndgameMovement(k))>>])

\* the ScriptedIndex of movement in the list of a Turn
ScriptedIndex(list, movement) == (CHOOSE k \in 1..Len(list) : list[k] = movement) - 1

\* the state in game_loop after EndgamePlayed plies of the recorded game:
\* both Hello handshakes complete, every Turn and Movement delivered; the
\* counters of the remote actions count from here
InitEndgame ==
    /\ srv_pc = "game_loop"
    /\ run_result = "none"
    /\ clients_tx = [Player1 |-> 1, Player2 |-> 2]
    /\ sessions = [sid \in Conns |-> IF sid = 1 THEN Player1
                                     ELSE IF sid = 2 THEN Player2 ELSE NoPlayer]
    /\ disconnected = {}
    /\ main_rx = <<>>
    /\ clients_rx = <<>>
    /\ broadcast_log = [k \in 1..EndgamePlayed |-> EndgameMovement(k)]
    /\ game = EndgameGames[EndgamePlayed + 1]
    /\ current_player = EndgameGames[EndgamePlayed].status.player
    /\ movements = available_movements(EndgameGames[EndgamePlayed])
    /\ hs_pc = [c \in Conns |-> IF c \in {1, 2} THEN "done" ELSE "start"]
    /\ hs_kind = [c \in Conns |-> IF c \in {1, 2} THEN "hello" ELSE "none"]
    /\ resp = [c \in Conns |-> NoReply]
    /\ client_pc = [c \in Conns |-> IF c \in {1, 2} THEN "running" ELSE "none"]
    /\ conn_player = [c \in Conns |-> IF c = 1 THEN Player1
                                      ELSE IF c = 2 THEN Player2 ELSE NoPlayer]
    /\ conn_sid = [c \in Conns |-> IF c \in {1, 2} THEN NewSessionId(c) ELSE NilSession]
    /\ remote_open = [c \in Conns |-> TRUE]
    /\ server_rx = [c \in Conns |-> <<>>]
    /\ bcast_pos = [c \in Conns |-> IF c \in {1, 2} THEN EndgamePlayed ELSE 0]
    /\ remote_out = [c \in Conns |->
                        IF c = 1 THEN <<Welcome(NewSessionId(c))>> \o EndgameWritten(Player1)
                        ELSE IF c = 2 THEN <<Welcome(NewSessionId(c))>> \o EndgameWritten(Player2)
                        ELSE <<>>]
    /\ turn_sent = {clients_tx[current_player]}
    /\ last_request = [type |-> "Choice", player |-> current_player,
                       conn |-> clients_tx[current_player], outcome |-> "applied",
                       prev |-> "none"]
    /\ n_sends = 0
    /\ n_closes = 0
    /\ closed_before = [c \in Conns |-> {}]
    /\ welcomed_before = [c \in Conns |-> {}]

\* the remote peer of the current player answers its Turn with the index of
\* the next movement of the recorded game
RemoteChoiceScripted(c) ==
    /\ srv_pc = "handle_turn"
    /\ client_pc[c] = "running"
    /\ remote_open[c]
    /\ Quiescent
    /\ clients_rx = <<>>
    /\ conn_player[c] = current_player
    /\ game.history = SubSeq(EndgameLine, 1, Len(game.history))
    /\ Len(game.history) < Len(EndgameLine)
    /\ Contains(movements, EndgameLine[Len(game.history) + 1])
    /\ clients_rx' = Append(clients_rx,
                            ClientMessage(conn_player[c], "Choice",
                                          ScriptedIndex(movements,
                                                        EndgameLine[Len(game.history) + 1]),
                                          c))
    /\ UNCHANGED <<srv_pc, run_result, clients_tx, sessions, disconnected, main_rx,
                   broadcast_log, game, current_player, movements, conn_vars, turn_sent,
                   last_request, env_vars>>

NextEndgame ==
    \/ GameLoopUpTo(EndgameMaxTurns)
    \/ HandleClient
    \/ Drain
    \/ \E c \in Conns : RemoteChoiceScripted(c)
    \/ \E c \in Conns : \E i \in ChoiceIndices : RemoteChoice(c, i)
    \/ \E c \in Conns : ClientDirect(c, TRUE)
    \/ \E c \in Conns : ClientBroadcast(c, TRUE)

SpecEndgame == InitEndgame /\ [][NextEndgame]_vars

\* the GameFinished messages broadcast so far
ResultsBroadcast ==
    SelectSeq(broadcast_log, LAMBDA message : message.type = "game_finished")

\* C36: when the move that brings the turn counter to max_turns also fills
\* the mover's goal region, the result broadcast is Finished with the mover
\* as winner, not MaxTurns
C36_WinBeforeTurnCap ==
    \A p \in Players :
        (/\ Len(game.history) = EndgameMaxTurns
         /\ GoalFull(game, p)
         /\ ResultsBroadcast # <<>>)
        => /\ Len(ResultsBroadcast) = 1
           /\ ResultsBroadcast[1].result.type = "finished"
           /\ ResultsBroadcast[1].result.winner = p
           /\ ResultsBroadcast[1].result.total_turns = EndgameMaxTurns

\* the ply that reaches max_turns has filled Player1's goal region and the
\* result was broadcast
C36_Witness ==
    /\ Len(game.history) = EndgameMaxTurns
    /\ GoalFull(game, Player1)
    /\ ResultsBroadcast # <<>>
    /\ run_result = "ok"

\* the game has reached max_turns with no goal region full and the result
\* broadcast is MaxTurns
CapWithoutWinSeen ==
    /\ Len(game.history) = EndgameMaxTurns
    /\ \A p \in Players : ~GoalFull(game, p)
    /\ ResultsBroadcast # <<>>
    /\ ResultsBroadcast[1].result.type = "max_turns"

(***************************************************************************)
(* The checked apply of the board (sterhalma/board/movement.rs), called    *)
(* once on each board of a recorded game.  The Board is the board field of *)
(* game; Board::apply_movement knows no status and no history              *)
(***************************************************************************)
\* Board::apply_movement: the board afterwards and "Ok" or the MovementError.
\* The piece is taken from the origin before the target is looked up, and is
\* put back in the arm of an occupied target only
board_apply_movement(board, indices) ==
    LET from == FlatIndex(indices[1])
        to == FlatIndex(indices[2])
        piece == board[from]
        taken == [board EXCEPT ![from] = Empty]
    IN IF piece = Outside THEN [board |-> board, ret |-> "InvalidIndex"]
       ELSE IF piece = Empty THEN [board |-> board, ret |-> "EmptyInit"]
       ELSE IF taken[to] = Outside THEN [board |-> taken, ret |-> "InvalidIndex"]
       ELSE IF taken[to] # Empty
            THEN [board |-> [taken EXCEPT ![from] = piece], ret |-> "Occupied"]
       ELSE [board |-> [taken EXCEPT ![to] = piece], ret |-> "Ok"]

\* the boards Board::apply_movement is called on
BoardSamples == {EndgameGames[k] : k \in 1..Len(EndgameGames)}

\* the Movement { from, to } values it is called with
BoardCandidates(board) ==
    LET pieces == iter_player_indices(board, Player1)
        others == iter_player_indices(board, Player2)
        empties == EmptyCells(board)
    IN {<<pieces[1], empties[1]>>,
        <<others[1], empties[Len(empties)]>>,
        <<pieces[1], others[1]>>,
        <<pieces[1], pieces[1]>>,
        <<empties[1], empties[2]>>,
        <<empties[1], pieces[1]>>,
        <<OutsideIdx, empties[1]>>,
        <<OutsideIdx, pieces[1]>>,
        <<pieces[1], OutsideIdx>>,
        <<empties[1], OutsideIdx>>}

InitBoard ==
    /\ srv_pc = "game_loop"
    /\ run_result = "none"
    /\ clients_tx = [p \in Players |-> NoConn]
    /\ sessions = [sid \in Conns |-> NoPlayer]
    /\ disconnected = {}
    /\ main_rx = <<>>
    /\ clients_rx = <<>>
    /\ broadcast_log = <<>>
    /\ game \in BoardSamples
    /\ current_player = NoPlayer
    /\ movements = <<>>
    /\ hs_pc = [c \in Conns |-> "start"]
    /\ hs_kind = [c \in Conns |-> "none"]
    /\ resp = [c \in Conns |-> NoReply]
    /\ client_pc = [c \in Conns |-> "none"]
    /\ conn_player = [c \in Conns |-> NoPlayer]
    /\ conn_sid = [c \in Conns |-> NilSession]
    /\ remote_open = [c \in Conns |-> TRUE]
    /\ server_rx = [c \in Conns |-> <<>>]
    /\ bcast_pos = [c \in Conns |-> 0]
    /\ remote_out = [c \in Conns |-> <<>>]
    /\ turn_sent = {}
    /\ last_request = NoRequest
    /\ n_sends = 0
    /\ n_closes = 0
    /\ closed_before = [c \in Conns |-> {}]
    /\ welcomed_before = [c \in Conns |-> {}]

\* Board::apply_movement(indices) is called and returns
BoardCall(indices) ==
    LET applied == board_apply_movement(game.board, indices)
    IN /\ game' = [game EXCEPT !.board = applied.board]
       /\ last_request' = GameCall("Board::apply_movement", applied.ret, game)

\* one call on the sample board
BoardApplyMovement ==
    /\ last_request = NoRequest
    /\ \E indices \in BoardCandidates(game.board) : BoardCall(indices)
    /\ game_unchanged

NextBoard == BoardApplyMovement

SpecBoard == InitBoard /\ [][NextBoard]_vars

\* C38: Board::apply_movement leaves the board unchanged whenever it returns
\* an error, for an empty origin, an invalid origin, an occupied target and
\* an invalid target alike: the piece at the origin is still there
C38_BoardErrorLeavesBoard ==
    [][(last_request'.type = "Board::apply_movement" /\ last_request'.outcome # "Ok")
        => game'.board = game.board]_vars

\* the board is unchanged after every error but that of an invalid target
\* reached from an occupied origin, and a call that returns Ok moves the piece
BoardErrorLeavesBoardButInvalidTarget ==
    [][\A indices \in BoardCandidates(game.board) :
          BoardCall(indices) =>
              LET from == game.board[FlatIndex(indices[1])]
                  to == game.board[FlatIndex(indices[2])]
              IN /\ (last_request'.outcome # "Ok" /\ ~(from \in Players /\ to = Outside))
                        => game'.board = game.board
                 /\ last_request'.outcome = "Ok"
                        => game'.board = board_apply_movement_unchecked(game.board, indices)
                 /\ last_request'.outcome = "Ok" <=> (from \in Players /\ (to = Empty \/ indices[1] = indices[2]))]_vars

(***************************************************************************)
(* Who the coordinator listens to                                          *)
(***************************************************************************)
\* the step of handle_turn acts on the request at the head of clients_rx: it
\* applies a movement for the player the request names or marks that player
\* disconnected
ActsOnRequest ==
    /\ TakesClientRequest
    /\ \/ game'.history # game.history
       \/ disconnected' # disconnected
       \/ clients_tx' # clients_tx

\* C37: the coordinator acts on a ClientRequest labelled p, a Choice or a
\* Disconnect, only when the connection task that sent it is the one whose
\* direct channel is registered for p
C37_OnlyRegisteredConnectionActs ==
    [][ActsOnRequest =>
            Head(clients_rx).conn = clients_tx[Head(clients_rx).player]]_vars

(***************************************************************************)
(* Progress of the play phase under fair scheduling: the runtime keeps     *)
(* running the coordinator, every handshake task and every Client task     *)
(* that can take a step; the remote peers are under no obligation          *)
(***************************************************************************)
\* a step of the coordinator other than the top of game_loop
ServerStep == WaitPlayersRecv \/ HandleMain \/ HandleClient \/ Drain

\* GameLoop is enabled exactly when srv_pc = "game_loop" and every step that
\* leaves "game_loop" is a GameLoop step: the coordinator does not stay at
\* the top of game_loop for ever, which is WF_vars(GameLoop)
SpecProgress ==
    /\ Init
    /\ [][Next]_vars
    /\ WF_vars(ServerStep)
    /\ []<>(srv_pc # "game_loop")
    /\ \A c \in Conns : WF_vars(HandshakeStep(c)) /\ WF_vars(ClientStep(c))

\* handle_turn holds, as its next request, an in-range Choice of the current
\* player, sent by the connection registered for it, after n movements
MoverChoiceQueued(n) ==
    /\ srv_pc = "handle_turn"
    /\ Len(game.history) = n
    /\ current_player \notin disconnected
    /\ clients_rx # <<>>
    /\ Head(clients_rx).request = "Choice"
    /\ Head(clients_rx).player = current_player
    /\ Head(clients_rx).conn = clients_tx[current_player]
    /\ Head(clients_rx).movement_index < Len(movements)

\* movement n + 1 was applied and broadcast, and the game has gone on: the
\* Turn of the next ply was dispatched or GameFinished was broadcast
MoveAnswered(n) ==
    /\ Len(game.history) >= n + 1
    /\ Len(MovementsBroadcast) >= n + 1
    /\ \/ ResultsBroadcast # <<>>
       \/ /\ Len(game.history) = n + 1
          /\ srv_pc = "handle_turn"
          /\ turn_sent # {}

\* after movement n + 1 the coordinator waits in handle_turn for the next
\* player, whom it has marked disconnected
WaitsForOpponent(n) ==
    /\ Len(game.history) = n + 1
    /\ Len(MovementsBroadcast) >= n + 1
    /\ srv_pc = "handle_turn"
    /\ current_player \in disconnected

\* C40: in the play phase, once the connected current player has sent an
\* in-range Choice, the movement is eventually applied and its Movement
\* broadcast, and then a Turn is dispatched to the opponent or GameFinished
\* is broadcast (or the coordinator waits for an opponent it has marked
\* disconnected to reconnect); so with a finite max_turns and players that
\* answer the game eventually ends
C40_PlayProgresses ==
    \A n \in 0..(MaxTurns - 1) :
        MoverChoiceQueued(n) ~> (MoveAnswered(n) \/ WaitsForOpponent(n))

\* the request that MoverChoiceQueued describes is applied by the next step
\* of handle_turn that takes it, and its Movement is broadcast in that step
QueuedChoiceApplied ==
    [][\A n \in 0..(MaxTurns - 1) :
          (MoverChoiceQueued(n) /\ TakesClientRequest)
              => /\ Len(game'.history) = n + 1
                 /\ Len(MovementsBroadcast') = n + 1]_vars

====
